---- MODULE Spec2Model ----
(***************************************************************************)
(* Similarity-gated resolution engine of the helpdesk backend:             *)
(* TicketService.process_ticket with its collaborators                     *)
(* (VectorService.search_similar / add_resolved_ticket,                    *)
(* AIService.analyze_ticket / _validate_analysis).                         *)
(*                                                                         *)
(* Scores, confidences and distances are fixed-point numbers in units of   *)
(* 1/Unit (1.0 = Unit).  Texts are Python strings; TextChars gives the     *)
(* characters of each text the model uses, so that substring tests run on  *)
(* characters as `keyword in text` does.                                   *)
(***************************************************************************)
EXTENDS Integers, Sequences, FiniteSets, TLC

\* ---------------------------------------------------------------- bounds
\* Number of process_ticket requests served in one behaviour.
MaxRequests == 2

\* ------------------------------------------------------------- constants
\* 1.0 in fixed point (the `1` of `1 - (distance / 2)`).
Unit == 10000
\* high_similarity_threshold = 0.8
high_similarity_threshold == 8000
\* very_high_similarity_threshold = 0.9
very_high_similarity_threshold == 9000
\* _find_similar_tickets: limit=5, min_similarity=0.3
SEARCH_LIMIT == 5
MIN_SIMILARITY == 3000
\* similar_tickets[:3]
TOP_N == 3
\* confidence default of _validate_analysis and of the unparsable-output analysis
DEFAULT_CONFIDENCE == 5000
\* confidence of the "AI service unavailable" analysis and of the fallback response
FALLBACK_CONFIDENCE == 1000
\* keyword_similarity >= 0.3 and len(intersection) >= 2
KEYWORD_SIMILARITY_THRESHOLD == 3000
MIN_MATCHING_KEYWORDS == 2

\* ------------------------------------------------------------ vocabulary
\* Each keyword with its characters.
tech_keywords ==
       ("vpn" :> <<"v","p","n">>)
    @@ ("email" :> <<"e","m","a","i","l">>)
    @@ ("internet" :> <<"i","n","t","e","r","n","e","t">>)
    @@ ("network" :> <<"n","e","t","w","o","r","k">>)
    @@ ("wifi" :> <<"w","i","f","i">>)
    @@ ("browser" :> <<"b","r","o","w","s","e","r">>)
    @@ ("application" :> <<"a","p","p","l","i","c","a","t","i","o","n">>)
    @@ ("app" :> <<"a","p","p">>)
    @@ ("software" :> <<"s","o","f","t","w","a","r","e">>)
    @@ ("hardware" :> <<"h","a","r","d","w","a","r","e">>)
    @@ ("printer" :> <<"p","r","i","n","t","e","r">>)
    @@ ("laptop" :> <<"l","a","p","t","o","p">>)
    @@ ("computer" :> <<"c","o","m","p","u","t","e","r">>)
    @@ ("phone" :> <<"p","h","o","n","e">>)
    @@ ("smartphone" :> <<"s","m","a","r","t","p","h","o","n","e">>)
    @@ ("password" :> <<"p","a","s","s","w","o","r","d">>)
    @@ ("login" :> <<"l","o","g","i","n">>)
    @@ ("access" :> <<"a","c","c","e","s","s">>)
    @@ ("permission" :> <<"p","e","r","m","i","s","s","i","o","n">>)
    @@ ("file" :> <<"f","i","l","e">>)
    @@ ("folder" :> <<"f","o","l","d","e","r">>)
    @@ ("drive" :> <<"d","r","i","v","e">>)
    @@ ("database" :> <<"d","a","t","a","b","a","s","e">>)
    @@ ("server" :> <<"s","e","r","v","e","r">>)
    @@ ("system" :> <<"s","y","s","t","e","m">>)
    @@ ("windows" :> <<"w","i","n","d","o","w","s">>)
    @@ ("macos" :> <<"m","a","c","o","s">>)
    @@ ("linux" :> <<"l","i","n","u","x">>)
    @@ ("chrome" :> <<"c","h","r","o","m","e">>)
    @@ ("firefox" :> <<"f","i","r","e","f","o","x">>)
    @@ ("outlook" :> <<"o","u","t","l","o","o","k">>)
    @@ ("teams" :> <<"t","e","a","m","s">>)
    @@ ("zoom" :> <<"z","o","o","m">>)
    @@ ("slack" :> <<"s","l","a","c","k">>)
    @@ ("office" :> <<"o","f","f","i","c","e">>)
    @@ ("excel" :> <<"e","x","c","e","l">>)
    @@ ("word" :> <<"w","o","r","d">>)
    @@ ("powerpoint" :> <<"p","o","w","e","r","p","o","i","n","t">>)
    @@ ("pdf" :> <<"p","d","f">>)

action_keywords ==
       ("crash" :> <<"c","r","a","s","h">>)
    @@ ("crashing" :> <<"c","r","a","s","h","i","n","g">>)
    @@ ("crashed" :> <<"c","r","a","s","h","e","d">>)
    @@ ("freeze" :> <<"f","r","e","e","z","e">>)
    @@ ("freezing" :> <<"f","r","e","e","z","i","n","g">>)
    @@ ("frozen" :> <<"f","r","o","z","e","n">>)
    @@ ("hang" :> <<"h","a","n","g">>)
    @@ ("hanging" :> <<"h","a","n","g","i","n","g">>)
    @@ ("slow" :> <<"s","l","o","w">>)
    @@ ("fast" :> <<"f","a","s","t">>)
    @@ ("loading" :> <<"l","o","a","d","i","n","g">>)
    @@ ("opening" :> <<"o","p","e","n","i","n","g">>)
    @@ ("closing" :> <<"c","l","o","s","i","n","g">>)
    @@ ("starting" :> <<"s","t","a","r","t","i","n","g">>)
    @@ ("stopping" :> <<"s","t","o","p","p","i","n","g">>)
    @@ ("working" :> <<"w","o","r","k","i","n","g">>)
    @@ ("not working" :> <<"n","o","t"," ","w","o","r","k","i","n","g">>)
    @@ ("broken" :> <<"b","r","o","k","e","n">>)
    @@ ("error" :> <<"e","r","r","o","r">>)
    @@ ("issue" :> <<"i","s","s","u","e">>)
    @@ ("problem" :> <<"p","r","o","b","l","e","m">>)
    @@ ("trouble" :> <<"t","r","o","u","b","l","e">>)
    @@ ("failing" :> <<"f","a","i","l","i","n","g">>)
    @@ ("failed" :> <<"f","a","i","l","e","d">>)
    @@ ("connecting" :> <<"c","o","n","n","e","c","t","i","n","g">>)
    @@ ("disconnecting" :> <<"d","i","s","c","o","n","n","e","c","t","i","n","g">>)
    @@ ("installing" :> <<"i","n","s","t","a","l","l","i","n","g">>)
    @@ ("uninstalling" :> <<"u","n","i","n","s","t","a","l","l","i","n","g">>)
    @@ ("updating" :> <<"u","p","d","a","t","i","n","g">>)
    @@ ("downloading" :> <<"d","o","w","n","l","o","a","d","i","n","g">>)

\* The texts of the model (issue descriptions and stored documents) with their characters.
TextChars ==
       ("vpn keeps crashing when opened" :> <<"v","p","n"," ","k","e","e","p","s"," ","c","r","a","s","h","i","n","g"," ","w","h","e","n"," ","o","p","e","n","e","d">>)
    @@ ("vpn keeps crashing" :> <<"v","p","n"," ","k","e","e","p","s"," ","c","r","a","s","h","i","n","g">>)
    @@ ("vpn crashing" :> <<"v","p","n"," ","c","r","a","s","h","i","n","g">>)
    @@ ("printer jammed" :> <<"p","r","i","n","t","e","r"," ","j","a","m","m","e","d">>)
    @@ ("WiFi not working" :> <<"W","i","F","i"," ","n","o","t"," ","w","o","r","k","i","n","g">>)
    @@ ("Wi-Fi not working" :> <<"W","i","-","F","i"," ","n","o","t"," ","w","o","r","k","i","n","g">>)
    @@ ("wifi not working" :> <<"w","i","f","i"," ","n","o","t"," ","w","o","r","k","i","n","g">>)
    @@ ("VPN: crash!" :> <<"V","P","N",":"," ","c","r","a","s","h","!">>)
    @@ ("vpn, crash?" :> <<"v","p","n",","," ","c","r","a","s","h","?">>)
    @@ ("vpn down" :> <<"v","p","n"," ","d","o","w","n">>)

\* ------------------------------------------------- keyword overlap (gate)
UpperCase == <<"A","B","C","D","E","F","G","H","I","J","K","L","M",
               "N","O","P","Q","R","S","T","U","V","W","X","Y","Z">>
LowerCase == <<"a","b","c","d","e","f","g","h","i","j","k","l","m",
               "n","o","p","q","r","s","t","u","v","w","x","y","z">>

\* str.lower(), character by character.
Lower(c) ==
    IF \E i \in 1..Len(UpperCase) : UpperCase[i] = c
    THEN LowerCase[CHOOSE i \in 1..Len(UpperCase) : UpperCase[i] = c]
    ELSE c

\* Characters matched by [^\w\s]: replaced by a space.
Punctuation == {"!", ".", ",", "?", "-", "'", ":"}

\* text = re.sub(r'[^\w\s]', ' ', text.lower())
Normalize(chars) ==
    [i \in 1..Len(chars) |->
        IF Lower(chars[i]) \in Punctuation THEN " " ELSE Lower(chars[i])]

\* Python's `keyword in text` on strings.
IsSubstring(k, t) ==
    \E i \in 0..(Len(t) - Len(k)) : SubSeq(t, i + 1, i + Len(k)) = k

\* extract_keywords(text): the vocabulary entries occurring in the normalized text.
extract_keywords(text) ==
    LET t == Normalize(TextChars[text])
    IN  {k \in DOMAIN tech_keywords : IsSubstring(tech_keywords[k], t)}
        \cup {k \in DOMAIN action_keywords : IsSubstring(action_keywords[k], t)}

\* The keyword set of every text of the model, computed once.
KeywordsOf == [text \in DOMAIN TextChars |-> extract_keywords(text)]

\* Faulty variant of keyword_similarity without the `if union else 0` guard:
\* two empty sets count as equal sets.
keyword_similarity_Unguarded(query_keywords, reference_keywords) ==
    LET intersection == query_keywords \cap reference_keywords
        union == query_keywords \cup reference_keywords
    IN  IF union = {} THEN Unit
        ELSE (Unit * Cardinality(intersection)) \div Cardinality(union)

\* keyword_similarity = len(intersection) / len(union) if union else 0, in
\* 1/Unit (rounded down, which leaves every comparison with 0.3 as it is).
keyword_similarity(query_keywords, reference_keywords) ==
    LET intersection == query_keywords \cap reference_keywords
        union == query_keywords \cup reference_keywords
    IN  IF union # {}
        THEN (Unit * Cardinality(intersection)) \div Cardinality(union)
        ELSE 0

\* Faulty variant of the gate: the ratio alone decides.
KeywordsMatch_RatioOnly(query_keywords, reference_keywords) ==
    IF query_keywords = {} \/ reference_keywords = {}
    THEN FALSE
    ELSE keyword_similarity(query_keywords, reference_keywords)
            >= KEYWORD_SIMILARITY_THRESHOLD

\* Lines 222-233 of _check_keyword_similarity, on the two keyword sets.
KeywordsMatch(query_keywords, reference_keywords) ==
    IF query_keywords = {} \/ reference_keywords = {}
    THEN FALSE
    \* keyword_similarity >= 0.3 and len(intersection) >= 2
    ELSE /\ keyword_similarity(query_keywords, reference_keywords)
               >= KEYWORD_SIMILARITY_THRESHOLD
         /\ Cardinality(query_keywords \cap reference_keywords)
               >= MIN_MATCHING_KEYWORDS

\* _check_keyword_similarity(query, reference)
_check_keyword_similarity(query, reference) ==
    KeywordsMatch(KeywordsOf[query], KeywordsOf[reference])

\* ------------------------------------------------------------ JSON values
\* A value of the generator's JSON output (json.loads), tagged with its
\* Python type.  Absent marks a key the dict does not hold.
JStr(s)  == [t |-> "str",  s |-> s,  n |-> 0]
JNum(n)  == [t |-> "num",  s |-> "", n |-> n]
JBool(b) == [t |-> "bool", s |-> "", n |-> IF b THEN Unit ELSE 0]
JNaN     == [t |-> "nan",  s |-> "", n |-> 0]
JNull    == [t |-> "null", s |-> "", n |-> 0]
\* A non-empty JSON array (for instance a list of steps).
JList    == [t |-> "list", s |-> "", n |-> 0]
Absent   == [t |-> "absent", s |-> "", n |-> 0]

\* The keys of an analysis dict.
AnalysisKeys ==
    {"issue_type", "urgency", "solution", "confidence_score", "reasoning",
     "estimated_resolution_time", "required_skills", "escalation_criteria",
     "source_ticket_id"}

\* A dict holding no key.
EmptyDict == [k \in AnalysisKeys |-> Absent]

\* d.get(key): None when the key is missing.
Get(d, key) == IF d[key] = Absent THEN JNull ELSE d[key]

\* d.get(key, default)
GetOr(d, key, default) == IF d[key] = Absent THEN default ELSE d[key]

\* bool(v)
Truthy(v) ==
    CASE v.t = "str"  -> v.s # ""
      [] v.t = "num"  -> v.n # 0
      [] v.t = "bool" -> v.n # 0
      [] v.t = "nan"  -> TRUE
      [] v.t = "list" -> TRUE
      [] OTHER        -> FALSE

\* isinstance(v, (int, float)): bool is a subclass of int, NaN is a float.
IsIntOrFloat(v) == v.t \in {"num", "bool", "nan"}

\* v < bound and v > bound on Python numbers: every comparison with NaN is False.
PyLess(v, bound) == v.t # "nan" /\ v.n < bound
PyGreater(v, bound) == v.t # "nan" /\ v.n > bound

\* ------------------------------------------------------------------ enums
\* [e.value for e in IssueType], [e.value for e in UrgencyLevel], Department
IssueType == {"hardware", "software", "network", "access", "other"}
UrgencyLevel == {"low", "medium", "high", "critical"}
Department == {"it", "hr", "finance", "marketing", "operations", "support", "other"}

\* ------------------------------------------------- AIService (generator)
INFO_NOT_AVAILABLE == "Information not available"
AI_UNAVAILABLE_SOLUTION ==
    "We're experiencing technical difficulties with our AI analysis. Please contact IT support directly for assistance with your issue."

required_fields ==
    {"solution", "reasoning", "estimated_resolution_time", "required_skills",
     "escalation_criteria"}

\* Faulty variant of _validate_analysis: a number outside [0, 1] is clamped
\* to the nearer bound instead of being replaced by 0.5.
_validate_analysis_Clamped(analysis) ==
    LET confidence == GetOr(analysis, "confidence_score", JNum(DEFAULT_CONFIDENCE))
        a1 == IF Get(analysis, "issue_type") \notin {JStr(v) : v \in IssueType}
              THEN [analysis EXCEPT !.issue_type = JStr("other")]
              ELSE analysis
        a2 == IF Get(a1, "urgency") \notin {JStr(v) : v \in UrgencyLevel}
              THEN [a1 EXCEPT !.urgency = JStr("medium")]
              ELSE a1
        a3 == IF ~IsIntOrFloat(confidence)
              THEN [a2 EXCEPT !.confidence_score = JNum(DEFAULT_CONFIDENCE)]
              ELSE IF PyLess(confidence, 0)
                   THEN [a2 EXCEPT !.confidence_score = JNum(0)]
                   ELSE IF PyGreater(confidence, Unit)
                        THEN [a2 EXCEPT !.confidence_score = JNum(Unit)]
                        ELSE a2
    IN  [k \in AnalysisKeys |->
            IF k \in required_fields /\ (a3[k] = Absent \/ ~Truthy(a3[k]))
            THEN JStr(INFO_NOT_AVAILABLE)
            ELSE a3[k]]

\* Faulty variant of _validate_analysis: the issue type is passed on as the
\* generator gave it.
_validate_analysis_AnyIssueType(analysis) ==
    LET a1 == IF Get(analysis, "issue_type") = JNull
              THEN [analysis EXCEPT !.issue_type = JStr("other")]
              ELSE analysis
        a2 == IF Get(a1, "urgency") \notin {JStr(v) : v \in UrgencyLevel}
              THEN [a1 EXCEPT !.urgency = JStr("medium")]
              ELSE a1
        confidence == GetOr(a2, "confidence_score", JNum(DEFAULT_CONFIDENCE))
        a3 == IF ~IsIntOrFloat(confidence) \/ PyLess(confidence, 0)
                 \/ PyGreater(confidence, Unit)
              THEN [a2 EXCEPT !.confidence_score = JNum(DEFAULT_CONFIDENCE)]
              ELSE a2
    IN  [k \in AnalysisKeys |->
            IF k \in required_fields /\ (a3[k] = Absent \/ ~Truthy(a3[k]))
            THEN JStr(INFO_NOT_AVAILABLE)
            ELSE a3[k]]

\* _validate_analysis(analysis), on a dict.
_validate_analysis(analysis) ==
    LET a1 == IF Get(analysis, "issue_type") \notin {JStr(v) : v \in IssueType}
              THEN [analysis EXCEPT !.issue_type = JStr("other")]
              ELSE analysis
        a2 == IF Get(a1, "urgency") \notin {JStr(v) : v \in UrgencyLevel}
              THEN [a1 EXCEPT !.urgency = JStr("medium")]
              ELSE a1
        confidence == GetOr(a2, "confidence_score", JNum(DEFAULT_CONFIDENCE))
        a3 == IF ~IsIntOrFloat(confidence) \/ PyLess(confidence, 0)
                 \/ PyGreater(confidence, Unit)
              THEN [a2 EXCEPT !.confidence_score = JNum(DEFAULT_CONFIDENCE)]
              ELSE a2
    IN  [k \in AnalysisKeys |->
            IF k \in required_fields /\ (a3[k] = Absent \/ ~Truthy(a3[k]))
            THEN JStr(INFO_NOT_AVAILABLE)
            ELSE a3[k]]

\* The analysis built when json.loads raises JSONDecodeError.
ParseFallbackAnalysis(issue_description) ==
    [EmptyDict EXCEPT
        !.issue_type = JStr("other"),
        !.urgency = JStr("medium"),
        !.solution = JStr("Based on the description '" \o issue_description
                          \o "', I recommend contacting your IT support team for assistance. This appears to be a technical issue that requires further investigation."),
        !.confidence_score = JNum(DEFAULT_CONFIDENCE),
        !.reasoning = JStr("Unable to parse detailed analysis"),
        !.estimated_resolution_time = JStr("30 minutes"),
        !.required_skills = JStr("intermediate"),
        !.escalation_criteria = JStr("If issue persists after 30 minutes")]

\* The analysis returned by the outer except of analyze_ticket.
UnavailableAnalysis ==
    [EmptyDict EXCEPT
        !.issue_type = JStr("other"),
        !.urgency = JStr("medium"),
        !.solution = JStr(AI_UNAVAILABLE_SOLUTION),
        !.confidence_score = JNum(FALLBACK_CONFIDENCE),
        !.reasoning = JStr("AI service unavailable"),
        !.estimated_resolution_time = JStr("Unknown"),
        !.required_skills = JStr("N/A"),
        !.escalation_criteria = JStr("Immediate")]

\* Faulty variant of analyze_ticket: a failed or unparsable model call yields
\* an analysis without keys instead of the two stand-in analyses.
analyze_ticket_Unhandled(issue_description, out) ==
    IF out.kind = "dict" THEN _validate_analysis(out.d) ELSE EmptyDict

\* analyze_ticket(user_name, department, issue_description), given what the
\* model call produced: out.kind is "raise" (the call raised or returned no
\* text), "unparsable" (text that is no JSON), "nondict" (JSON that is no
\* object: .get raises AttributeError) or "dict" (a JSON object, out.d).
analyze_ticket(issue_description, out) ==
    CASE out.kind = "raise"      -> UnavailableAnalysis
      [] out.kind = "nondict"    -> UnavailableAnalysis
      [] out.kind = "unparsable" ->
            _validate_analysis(ParseFallbackAnalysis(issue_description))
      [] OTHER                   -> _validate_analysis(out.d)

\* ---------------------------------------------------------- VectorService
\* A document of the helpdesk_tickets collection with its metadata:
\* [id, ticket_id, description, issue_type, urgency, resolution, resolved_date],
\* id being the document id of the collection and ticket_id the metadata entry.

\* datetime.now().isoformat() of the run.
NOW_ISO == "2026-11-01T09:00:00"

\* Strings datetime.fromisoformat accepts, among those the model stores.
IsoDates == {"2024-12-01", NOW_ISO}

Max(a, b) == IF a >= b THEN a ELSE b
Min(a, b) == IF a <= b THEN a ELSE b

\* similarity_score = max(0, 1 - (distance / 2))
Similarity(distance) == Max(0, Unit - distance \div 2)

\* round(similarity_score, 3)
Round3(x) == ((x + 5) \div 10) * 10

\* Faulty variant of the parse: every metadata is taken as a candidate.
ParsesAsSimilarTicket_Lenient(metadata) == TRUE

\* Whether SimilarTicket(...) can be built from the metadata of a result:
\* IssueType(...), UrgencyLevel(...) and datetime.fromisoformat(...) raise otherwise.
ParsesAsSimilarTicket(metadata) ==
    /\ metadata.issue_type \in IssueType
    /\ metadata.urgency \in UrgencyLevel
    /\ metadata.resolved_date \in IsoDates

\* SimilarTicket(id=..., description=doc, ...) of one query result.
SimilarTicket(result) ==
    [id               |-> result.metadata.ticket_id,
     description      |-> result.document,
     resolution       |-> result.metadata.resolution,
     issue_type       |-> result.metadata.issue_type,
     urgency          |-> result.metadata.urgency,
     similarity_score |-> Round3(Similarity(result.distance)),
     resolved_date    |-> result.metadata.resolved_date]

RECURSIVE InsertDescending(_, _)
\* x placed behind every ticket whose score is at least its own.
InsertDescending(sorted, x) ==
    IF sorted = <<>> THEN <<x>>
    ELSE IF Head(sorted).similarity_score >= x.similarity_score
         THEN <<Head(sorted)>> \o InsertDescending(Tail(sorted), x)
         ELSE <<x>> \o sorted

RECURSIVE SortDescending(_)
\* similar_tickets.sort(key=lambda x: x.similarity_score, reverse=True): stable.
SortDescending(tickets) ==
    IF tickets = <<>> THEN <<>>
    ELSE InsertDescending(SortDescending(SubSeq(tickets, 1, Len(tickets) - 1)),
                          tickets[Len(tickets)])

\* collection.query(query_embeddings, n_results): the n_results nearest
\* documents, nearest first.  distance[i] is the distance of document i to
\* the query and order a ranking of the documents by it.
collection_query(collection, distance, order, n_results) ==
    [i \in 1..Min(Len(collection), n_results) |->
        [document |-> collection[order[i]].description,
         metadata |-> collection[order[i]],
         distance |-> distance[order[i]]]]

\* The rankings of n documents that respect their distances.
Rankings(distance, n) ==
    {order \in [1..n -> 1..n] :
        /\ \A i, j \in 1..n : i # j => order[i] # order[j]
        /\ \A i, j \in 1..n : i < j => distance[order[i]] <= distance[order[j]]}

\* Faulty variant of search_similar: the floor is compared with the rounded
\* score instead of the computed similarity.
search_similar_RoundedFloor(results, min_similarity) ==
    LET Keep(result) ==
            /\ Round3(Similarity(result.distance)) >= min_similarity
            /\ ParsesAsSimilarTicket(result.metadata)
        kept == SelectSeq(results, Keep)
    IN  SortDescending([i \in 1..Len(kept) |-> SimilarTicket(kept[i])])

\* search_similar(query, limit, min_similarity), given the query's results:
\* results under the floor and results that do not parse are dropped.
search_similar(results, min_similarity) ==
    LET Keep(result) ==
            /\ Similarity(result.distance) >= min_similarity
            /\ ParsesAsSimilarTicket(result.metadata)
        kept == SelectSeq(results, Keep)
    IN  SortDescending([i \in 1..Len(kept) |-> SimilarTicket(kept[i])])

\* The document ids a collection holds.
DocIds(collection) == {collection[i].id : i \in 1..Len(collection)}

\* ticket_id = f"ticket_{uuid.uuid4().hex[:8]}".  Document ids are opaque: the
\* id minted for a collection stands for every id the collection does not
\* hold yet.
FreshId(collection) == "ticket_" \o ToString(Len(collection) + 1)

\* Faulty variant of the stored document: the minted document id is written
\* where the ticket's id belongs.
ResolvedRecord_MintedTicketId(id, ticket_metadata, description, resolution) ==
    [id            |-> id,
     ticket_id     |-> id,
     description   |-> description,
     issue_type    |-> ticket_metadata.issue_type,
     urgency       |-> ticket_metadata.urgency,
     resolution    |-> resolution,
     resolved_date |-> ticket_metadata.resolved_date]

\* The record collection.add stores under the document id for
\* add_resolved_ticket(ticket_metadata, description, resolution).
ResolvedRecord(id, ticket_metadata, description, resolution) ==
    [id            |-> id,
     ticket_id     |-> ticket_metadata.ticket_id,
     description   |-> description,
     issue_type    |-> ticket_metadata.issue_type,
     urgency       |-> ticket_metadata.urgency,
     resolution    |-> resolution,
     resolved_date |-> ticket_metadata.resolved_date]

\* Faulty variant of add_resolved_ticket: the document is stored under the
\* ticket's id with upsert, so a second solution of a ticket replaces the first.
VectorService_add_resolved_ticket_Upsert(collection, ticket_metadata, description, resolution) ==
    LET rec == ResolvedRecord(ticket_metadata.ticket_id, ticket_metadata,
                              description, resolution)
    IN  {IF rec.id \in DocIds(collection)
         THEN [i \in 1..Len(collection) |->
                  IF collection[i].id = rec.id THEN rec ELSE collection[i]]
         ELSE Append(collection, rec),
         collection}

\* VectorService.add_resolved_ticket(ticket_metadata, description, resolution):
\* the collections the call may leave.  It appends one document under the
\* minted id, or it raises and leaves the collection as it is (encode or
\* collection.add fails; an id the collection holds already is not added
\* again, and the document held under it is not replaced).
VectorService_add_resolved_ticket(collection, ticket_metadata, description, resolution) ==
    {Append(collection,
            ResolvedRecord(FreshId(collection), ticket_metadata, description,
                           resolution)),
     collection}

\* ---------------------------------------------------------- TicketService
\* self.escalation_contacts
escalation_contacts ==
    [hardware |-> [it |-> "hardware-support@company.com",
                   default |-> "it-support@company.com"],
     software |-> [it |-> "software-support@company.com",
                   default |-> "it-support@company.com"],
     network  |-> [it |-> "network-admin@company.com",
                   default |-> "network-support@company.com"],
     access   |-> [hr |-> "hr-access@company.com",
                   finance |-> "finance-access@company.com",
                   default |-> "security-admin@company.com"],
     other    |-> [default |-> "general-support@company.com"]]

GLOBAL_DEFAULT_CONTACT == "support@company.com"

\* Faulty variant of the router: a department without an entry goes to the
\* global default, whatever the issue type.
_get_escalation_contact_NoTypeDefault(issue_type, department) ==
    IF /\ issue_type \in DOMAIN escalation_contacts
       /\ department \in DOMAIN escalation_contacts[issue_type]
    THEN escalation_contacts[issue_type][department]
    ELSE GLOBAL_DEFAULT_CONTACT

\* _get_escalation_contact(issue_type, department)
_get_escalation_contact(issue_type, department) ==
    LET issue_contacts ==
            IF issue_type \in DOMAIN escalation_contacts
            THEN escalation_contacts[issue_type]
            ELSE [k \in {} |-> ""]
    IN  IF department \in DOMAIN issue_contacts
        THEN issue_contacts[department]
        ELSE IF "default" \in DOMAIN issue_contacts
             THEN issue_contacts["default"]
             ELSE GLOBAL_DEFAULT_CONTACT

FALLBACK_SOLUTION ==
    "We're experiencing technical difficulties. Please contact IT support directly for immediate assistance."
FALLBACK_CONTACT == "it-support@company.com"

\* pydantic's validation of a `str` field: text only (a list is rejected).
IsValidStr(v) == v.t = "str"

\* pydantic's validation of an `Optional[str]` field.
IsValidOptionalStr(v) == v.t \in {"str", "null"}

\* pydantic's validation of a `float` field: a bool becomes 1.0 or 0.0.
AsFloat(v) == IF v.t = "bool" THEN JNum(v.n) ELSE v

\* Faulty variant of the decision: any candidate of the list may qualify,
\* not the first one alone.
UseDatabaseSolution_AnyCandidate(tickets, issue_description) ==
    \E i \in 1..Len(tickets) :
        \/ tickets[i].similarity_score >= very_high_similarity_threshold
        \/ /\ tickets[i].similarity_score >= high_similarity_threshold
           /\ _check_keyword_similarity(issue_description, tickets[i].description)

\* Faulty variant of the decision: a first candidate scoring at least 0.8 is
\* reused without the keyword test.
UseDatabaseSolution_NoKeywordCheck(tickets, issue_description) ==
    /\ tickets # <<>>
    /\ tickets[1].similarity_score >= high_similarity_threshold

\* The decision of process_ticket (lines 65-81) on the ranked candidates.
UseDatabaseSolution(tickets, issue_description) ==
    /\ tickets # <<>>
    /\ LET best_match == tickets[1]
       IN  \/ best_match.similarity_score >= very_high_similarity_threshold
           \/ /\ best_match.similarity_score >= high_similarity_threshold
              /\ _check_keyword_similarity(issue_description, best_match.description)

\* Faulty variant of the reuse branch: the classification is reset to the
\* defaults and the source ticket is not named.
ReuseAnalysis_Unattributed(best_match) ==
    [EmptyDict EXCEPT
        !.issue_type = JStr("other"),
        !.urgency = JStr("medium"),
        !.solution = JStr(best_match.resolution),
        !.confidence_score = JNum(best_match.similarity_score),
        !.reasoning = JStr("Retrieved from similar resolved ticket")]

\* ai_analysis of the reuse branch (lines 94-102).
ReuseAnalysis(best_match) ==
    [EmptyDict EXCEPT
        !.issue_type = JStr(best_match.issue_type),
        !.urgency = JStr(best_match.urgency),
        !.solution = JStr(best_match.resolution),
        !.confidence_score = JNum(best_match.similarity_score),
        !.reasoning = JStr("Retrieved from similar resolved ticket"),
        !.source_ticket_id = JStr(best_match.id)]

\* Whether TicketMetadata(...) of _store_new_solution validates.
TicketMetadataValidates(analysis) ==
    /\ analysis.issue_type # Absent /\ IsValidStr(analysis.issue_type)
    /\ analysis.urgency # Absent /\ IsValidStr(analysis.urgency)
    /\ analysis.solution # Absent /\ IsValidStr(analysis.solution)

\* The exception lines 105-128 raise on ai_analysis, "none" when they build
\* the response: a missing key raises KeyError, IssueType(...) and
\* UrgencyLevel(...) raise ValueError, TicketResponse(...) ValidationError.
ResponseError(analysis) ==
    CASE analysis.issue_type = Absent -> "KeyError"
      [] analysis.issue_type.t # "str" \/ analysis.issue_type.s \notin IssueType
            -> "ValueError"
      [] analysis.urgency = Absent -> "KeyError"
      [] analysis.urgency.t # "str" \/ analysis.urgency.s \notin UrgencyLevel
            -> "ValueError"
      [] analysis.solution = Absent -> "KeyError"
      [] analysis.confidence_score = Absent -> "KeyError"
      [] \/ ~IsValidStr(analysis.solution)
         \/ ~IsIntOrFloat(analysis.confidence_score)
         \/ ~IsValidOptionalStr(Get(analysis, "source_ticket_id"))
            -> "ValidationError"
      [] OTHER -> "none"

\* Faulty variant of the response: the whole ranked list is shown.
TicketResponse_AllCandidates(id, request, analysis, tickets, source) ==
    [ticket_id             |-> id,
     department            |-> request.department,
     issue_description     |-> request.issue_description,
     issue_type            |-> analysis.issue_type.s,
     urgency               |-> analysis.urgency.s,
     ai_generated_solution |-> analysis.solution.s,
     similar_tickets       |-> tickets,
     escalation_contact    |->
        _get_escalation_contact(analysis.issue_type.s, request.department),
     confidence_score      |-> AsFloat(analysis.confidence_score),
     response_source       |-> source,
     source_ticket_id      |-> Get(analysis, "source_ticket_id")]

\* TicketResponse(...) of lines 114-128.
TicketResponse(id, request, analysis, tickets, source) ==
    [ticket_id             |-> id,
     department            |-> request.department,
     issue_description     |-> request.issue_description,
     issue_type            |-> analysis.issue_type.s,
     urgency               |-> analysis.urgency.s,
     ai_generated_solution |-> analysis.solution.s,
     similar_tickets       |-> SubSeq(tickets, 1, Min(TOP_N, Len(tickets))),
     escalation_contact    |->
        _get_escalation_contact(analysis.issue_type.s, request.department),
     confidence_score      |-> AsFloat(analysis.confidence_score),
     response_source       |-> source,
     source_ticket_id      |-> Get(analysis, "source_ticket_id")]

\* Faulty variant of the except branch: the contact is routed from the
\* issue type "other" instead of being the fixed address.
FallbackResponse_Routed(id, request) ==
    [ticket_id             |-> id,
     department            |-> request.department,
     issue_description     |-> request.issue_description,
     issue_type            |-> "other",
     urgency               |-> "medium",
     ai_generated_solution |-> FALLBACK_SOLUTION,
     similar_tickets       |-> <<>>,
     escalation_contact    |-> _get_escalation_contact("other", request.department),
     confidence_score      |-> JNum(FALLBACK_CONFIDENCE),
     response_source       |-> "fallback",
     source_ticket_id      |-> JNull]

\* TicketResponse(...) of the except branch (lines 137-150).
FallbackResponse(id, request) ==
    [ticket_id             |-> id,
     department            |-> request.department,
     issue_description     |-> request.issue_description,
     issue_type            |-> "other",
     urgency               |-> "medium",
     ai_generated_solution |-> FALLBACK_SOLUTION,
     similar_tickets       |-> <<>>,
     escalation_contact    |-> FALLBACK_CONTACT,
     confidence_score      |-> JNum(FALLBACK_CONFIDENCE),
     response_source       |-> "fallback",
     source_ticket_id      |-> JNull]

\* ------------------------------------------------------------------ state
VARIABLES
    store,                  \* the helpdesk_tickets collection, in insertion order
    nreq,                   \* process_ticket calls made so far
    pc,                     \* where the current call stands
    ticket_request,         \* its TicketRequest
    ticket_id,              \* its ticket_id
    similar_tickets,        \* what _find_similar_tickets returned
    index_failed,           \* whether the vector query of this call raised
    use_database_solution,  \* the local of that name
    response_source,        \* the local of that name
    llm_output,             \* what the model call of this request produced
    ai_analysis,            \* the local of that name
    generator_calls,        \* analyze_ticket calls of this request
    recorder_calls,         \* arguments of the _store_new_solution calls of this request
    exc,                    \* the exception the except branch caught, or "none"
    response,               \* the TicketResponse returned
    store_at_start,         \* the collection when the call began
    call,                   \* the function call under study and its arguments
    returned,               \* what that call returned
    collections,            \* the other named collections of the client
    tasks                   \* the coroutines in flight, with their locals

vars ==
    <<store, nreq, pc, ticket_request, ticket_id, similar_tickets, index_failed,
      use_database_solution, response_source, llm_output, ai_analysis,
      generator_calls, recorder_calls, exc, response, store_at_start,
      call, returned, collections, tasks>>

\* ----------------------------------------------------------------- inputs
\* Documents a collection may hold when the service starts.
VpnRecord ==
    [id |-> "sample_001", ticket_id |-> "TKT-2024-VPN", description |-> "vpn crashing",
     issue_type |-> "network", urgency |-> "high",
     resolution |-> "Reinstall the VPN client.", resolved_date |-> "2024-12-01"]
PrinterRecord ==
    [id |-> "sample_001", ticket_id |-> "TKT-2024-PRN", description |-> "printer jammed",
     issue_type |-> "hardware", urgency |-> "low",
     resolution |-> "Clear the paper tray.", resolved_date |-> "2024-12-01"]

InitialStores == {<<>>, <<VpnRecord>>, <<PrinterRecord>>}

\* Requests: department and issue description (at least 10 characters).
RequestDepartments == {"it", "hr"}
RequestDescriptions == {"vpn keeps crashing when opened", "vpn keeps crashing"}

\* Raw distances the index reports, in 1/Unit: similarities 0.95, 0.85, 0.75, 0.2.
Distances == {1000, 3000, 5000, 16000}

\* What the model call may produce.  The classification is either well formed
\* or the ("Technical", "Medium") of test_data.py; the solution is text or a
\* list of steps; the confidence is in range, out of range, text, true, NaN
\* or missing; a "source_ticket_id" key may come along, as text or as a list.
ClassificationOutputs ==
    {<<JStr("hardware"), JStr("high")>>, <<JStr("Technical"), JStr("Medium")>>}
SolutionOutputs == {JStr("Restart the VPN client."), JList}
ConfidenceOutputs ==
    {JNum(7000), JNum(17000), JStr("high"), JBool(TRUE), JNaN, Absent}
SourceTicketIdOutputs == {Absent, JStr("TKT-OTHER"), JList}

DictOutputs ==
    {[EmptyDict EXCEPT !.issue_type = cl[1], !.urgency = cl[2], !.solution = so,
                       !.confidence_score = co, !.source_ticket_id = st] :
        cl \in ClassificationOutputs, so \in SolutionOutputs,
        co \in ConfidenceOutputs, st \in SourceTicketIdOutputs}

GeneratorOutputs ==
    {[kind |-> k, d |-> EmptyDict] : k \in {"raise", "unparsable", "nondict"}}
    \cup {[kind |-> "dict", d |-> d] : d \in DictOutputs}

NoRequest == [department |-> "", issue_description |-> ""]
NoOutput == [kind |-> "none", d |-> EmptyDict]
NoResponse ==
    [ticket_id |-> "", department |-> "", issue_description |-> "",
     issue_type |-> "", urgency |-> "", ai_generated_solution |-> "",
     similar_tickets |-> <<>>, escalation_contact |-> "",
     confidence_score |-> JNull, response_source |-> "none",
     source_ticket_id |-> JNull]

\* No function call is under study: the service runs.
NoCall == [fn |-> "none"]
NoResult == [kind |-> "none"]

\* The collections store_resolved_ticket and store_escalated_ticket create on
\* first use; none exists when the service starts.
CollectionNames == {"resolved_tickets", "escalated_tickets"}
NoCollections == [name \in CollectionNames |-> [exists |-> FALSE, docs |-> <<>>]]

\* No coroutine is in flight.
NoTasks == <<>>

\* client.get_collection(name): raises when the client has no collection of
\* that name.
get_collection_raises(cols, name) == ~cols[name].exists

\* client.create_collection(name) without get_or_create: raises when the
\* client has a collection of that name already.
create_collection_raises(cols, name) == cols[name].exists

\* Faulty variant of the get-or-create: the collection is created without
\* asking for it first.
OpenCollection_CreateOnly(cols, name) ==
    IF create_collection_raises(cols, name)
    THEN [raised |-> TRUE, cols |-> cols]
    ELSE [raised |-> FALSE,
          cols |-> [cols EXCEPT ![name] = [exists |-> TRUE, docs |-> <<>>]]]

\* The get-or-create of store_resolved_ticket (lines 294-300) and of
\* store_escalated_ticket (lines 386-392): get_collection, and
\* create_collection when that raised.  No await stands between the two.
OpenCollection(cols, name) ==
    IF ~get_collection_raises(cols, name)
    THEN [raised |-> FALSE, cols |-> cols]
    ELSE IF create_collection_raises(cols, name)
         THEN [raised |-> TRUE, cols |-> cols]
         ELSE [raised |-> FALSE,
               cols |-> [cols EXCEPT ![name] = [exists |-> TRUE, docs |-> <<>>]]]

\* store_resolved_ticket(data) / store_escalated_ticket(data) on collection
\* `name`: the outcomes the call may have.  The collection is opened, then
\* one document is added under a minted id; a failure of either is re-raised.
StoreTicket(cols, name, data) ==
    LET opened == OpenCollection(cols, name)
        docs == opened.cols[name].docs
        doc == [id |-> name \o "_" \o ToString(Len(docs) + 1), metadata |-> data]
    IN  IF opened.raised
        THEN {[raised |-> TRUE, error |-> "create_collection", cols |-> cols]}
        ELSE {[raised |-> FALSE, error |-> "none",
               cols |-> [opened.cols EXCEPT ![name].docs = Append(docs, doc)]],
              [raised |-> TRUE, error |-> "add", cols |-> opened.cols]}

\* Faulty variant of the ranker step: the candidates are kept on the service
\* object, so every request in flight sees the list of the latest ranker call.
SetCandidates_Shared(ts, caller, candidates) ==
    [c \in DOMAIN ts |->
        IF c = caller \/ ts[c].pc \in {"decided", "generate"}
        THEN [ts[c] EXCEPT !.similar_tickets = candidates]
        ELSE ts[c]]

\* similar_tickets = await self._find_similar_tickets(...): a local of the
\* coroutine of `caller`.
SetCandidates(ts, caller, candidates) ==
    [ts EXCEPT ![caller].similar_tickets = candidates]

\* ----------------------------------------------------------------- Init
Init ==
    /\ store \in InitialStores
    /\ nreq = 0
    /\ pc = "idle"
    /\ ticket_request = NoRequest
    /\ ticket_id = ""
    /\ similar_tickets = <<>>
    /\ index_failed = FALSE
    /\ use_database_solution = FALSE
    /\ response_source = "none"
    /\ llm_output = NoOutput
    /\ ai_analysis = EmptyDict
    /\ generator_calls = 0
    /\ recorder_calls = <<>>
    /\ exc = "none"
    /\ response = NoResponse
    /\ store_at_start = store
    /\ call = NoCall
    /\ returned = NoResult
    /\ collections = NoCollections
    /\ tasks = NoTasks

\* ---------------------------------------------------------------- actions
\* process_ticket(ticket_request), lines 45-52: a new call begins.
process_ticket(department, issue_description) ==
    /\ pc = "idle"
    /\ nreq < MaxRequests
    /\ nreq' = nreq + 1
    /\ ticket_request' =
          [department |-> department, issue_description |-> issue_description]
    /\ ticket_id' = "TKT-" \o ToString(nreq + 1)
    /\ similar_tickets' = <<>>
    /\ index_failed' = FALSE
    /\ use_database_solution' = FALSE
    /\ response_source' = "none"
    /\ llm_output' = NoOutput
    /\ ai_analysis' = EmptyDict
    /\ generator_calls' = 0
    /\ recorder_calls' = <<>>
    /\ exc' = "none"
    /\ response' = NoResponse
    /\ store_at_start' = store
    /\ pc' = "rank"
    /\ UNCHANGED store
    /\ UNCHANGED <<call, returned, collections, tasks>>

\* _find_similar_tickets(issue_description): search_similar(limit=5,
\* min_similarity=0.3); a failure of the embedding or of the index query is
\* caught and yields [].
_find_similar_tickets ==
    /\ pc = "rank"
    /\ \/ /\ index_failed' = TRUE
          /\ similar_tickets' = <<>>
       \/ \E distance \in [1..Len(store) -> Distances] :
          \E order \in Rankings(distance, Len(store)) :
             /\ index_failed' = FALSE
             /\ similar_tickets' =
                   search_similar(
                       collection_query(store, distance, order, SEARCH_LIMIT),
                       MIN_SIMILARITY)
    /\ pc' = "decide"
    /\ UNCHANGED <<store, nreq, ticket_request, ticket_id, use_database_solution,
                   response_source, llm_output, ai_analysis, generator_calls,
                   recorder_calls, exc, response, store_at_start>>
    /\ UNCHANGED <<call, returned, collections, tasks>>

\* Faulty variant of the decision: the regenerate branch goes to the recorder
\* without calling the generator.
decide_RecorderFirst ==
    /\ pc = "decide"
    /\ LET use == UseDatabaseSolution(similar_tickets,
                                      ticket_request.issue_description)
       IN  /\ use_database_solution' = use
           /\ response_source' = IF use THEN "database" ELSE "ai"
           /\ ai_analysis' =
                 IF use THEN ReuseAnalysis(similar_tickets[1]) ELSE ai_analysis
           /\ pc' = IF use THEN "respond" ELSE "record"
    /\ UNCHANGED <<store, nreq, ticket_request, ticket_id, similar_tickets,
                   index_failed, llm_output, generator_calls, recorder_calls,
                   exc, response, store_at_start>>
    /\ UNCHANGED <<call, returned, collections, tasks>>

\* Lines 59-85 and the reuse branch 93-102: the decision.
decide ==
    /\ pc = "decide"
    /\ LET use == UseDatabaseSolution(similar_tickets,
                                      ticket_request.issue_description)
       IN  /\ use_database_solution' = use
           /\ response_source' = IF use THEN "database" ELSE "ai"
           /\ ai_analysis' =
                 IF use THEN ReuseAnalysis(similar_tickets[1]) ELSE ai_analysis
           /\ pc' = IF use THEN "respond" ELSE "generate"
    /\ UNCHANGED <<store, nreq, ticket_request, ticket_id, similar_tickets,
                   index_failed, llm_output, generator_calls, recorder_calls,
                   exc, response, store_at_start>>
    /\ UNCHANGED <<call, returned, collections, tasks>>

\* Lines 86-90: ai_analysis = await self.ai_service.analyze_ticket(...).
generate ==
    /\ pc = "generate"
    /\ \E out \in GeneratorOutputs :
          /\ llm_output' = out
          /\ ai_analysis' = analyze_ticket(ticket_request.issue_description, out)
    /\ generator_calls' = generator_calls + 1
    /\ pc' = "record"
    /\ UNCHANGED <<store, nreq, ticket_request, ticket_id, similar_tickets,
                   index_failed, use_database_solution, response_source,
                   recorder_calls, exc, response, store_at_start>>
    /\ UNCHANGED <<call, returned, collections, tasks>>

\* Faulty variant of line 92: the recorder is invoked only for an analysis the
\* generator was confident about.
_store_new_solution_WhenConfident ==
    /\ pc = "record"
    /\ IF ai_analysis.confidence_score.t = "num"
          /\ ai_analysis.confidence_score.n > FALLBACK_CONFIDENCE
       THEN /\ recorder_calls' =
                  Append(recorder_calls,
                         [description |-> ticket_request.issue_description,
                          solution    |-> ai_analysis.solution,
                          issue_type  |-> ai_analysis.issue_type,
                          urgency     |-> ai_analysis.urgency])
            /\ IF TicketMetadataValidates(ai_analysis)
               THEN store' \in
                      VectorService_add_resolved_ticket(
                          store,
                          [ticket_id     |-> ticket_id,
                           issue_type    |-> ai_analysis.issue_type.s,
                           urgency       |-> ai_analysis.urgency.s,
                           resolved_date |-> NOW_ISO],
                          ticket_request.issue_description,
                          ai_analysis.solution.s)
               ELSE store' = store
       ELSE UNCHANGED <<recorder_calls, store>>
    /\ pc' = "respond"
    /\ UNCHANGED <<nreq, ticket_request, ticket_id, similar_tickets, index_failed,
                   use_database_solution, response_source, llm_output,
                   ai_analysis, generator_calls, exc, response, store_at_start>>
    /\ UNCHANGED <<call, returned, collections, tasks>>

\* Faulty variant of _store_new_solution without its try / except: a failed
\* recording reaches the except branch of process_ticket.
_store_new_solution_Raising ==
    /\ pc = "record"
    /\ recorder_calls' =
          Append(recorder_calls,
                 [description |-> ticket_request.issue_description,
                  solution    |-> ai_analysis.solution,
                  issue_type  |-> ai_analysis.issue_type,
                  urgency     |-> ai_analysis.urgency])
    /\ IF TicketMetadataValidates(ai_analysis)
       THEN store' \in
              VectorService_add_resolved_ticket(
                  store,
                  [ticket_id     |-> ticket_id,
                   issue_type    |-> ai_analysis.issue_type.s,
                   urgency       |-> ai_analysis.urgency.s,
                   resolved_date |-> NOW_ISO],
                  ticket_request.issue_description,
                  ai_analysis.solution.s)
       ELSE store' = store
    /\ IF store' = store
       THEN /\ exc' = "RecordingFailure"
            /\ response' = FallbackResponse(ticket_id, ticket_request)
            /\ pc' = "idle"
       ELSE /\ pc' = "respond"
            /\ UNCHANGED <<exc, response>>
    /\ UNCHANGED <<nreq, ticket_request, ticket_id, similar_tickets, index_failed,
                   use_database_solution, response_source, llm_output,
                   ai_analysis, generator_calls, store_at_start>>
    /\ UNCHANGED <<call, returned, collections, tasks>>

\* Line 92: await self._store_new_solution(ticket_id, ticket_request,
\* ai_analysis).  A TicketMetadata that does not validate, or a failing
\* add_resolved_ticket, is logged and swallowed.
_store_new_solution ==
    /\ pc = "record"
    /\ recorder_calls' =
          Append(recorder_calls,
                 [description |-> ticket_request.issue_description,
                  solution    |-> ai_analysis.solution,
                  issue_type  |-> ai_analysis.issue_type,
                  urgency     |-> ai_analysis.urgency])
    /\ IF TicketMetadataValidates(ai_analysis)
       THEN store' \in
              VectorService_add_resolved_ticket(
                  store,
                  [ticket_id     |-> ticket_id,
                   issue_type    |-> ai_analysis.issue_type.s,
                   urgency       |-> ai_analysis.urgency.s,
                   resolved_date |-> NOW_ISO],
                  ticket_request.issue_description,
                  ai_analysis.solution.s)
       ELSE store' = store
    /\ pc' = "respond"
    /\ UNCHANGED <<nreq, ticket_request, ticket_id, similar_tickets, index_failed,
                   use_database_solution, response_source, llm_output,
                   ai_analysis, generator_calls, exc, response, store_at_start>>
    /\ UNCHANGED <<call, returned, collections, tasks>>

\* Lines 104-131, and 133-150 when they raise: the response is returned.
respond ==
    /\ pc = "respond"
    /\ exc' = ResponseError(ai_analysis)
    /\ response' =
          IF ResponseError(ai_analysis) = "none"
          THEN TicketResponse(ticket_id, ticket_request, ai_analysis,
                              similar_tickets, response_source)
          ELSE FallbackResponse(ticket_id, ticket_request)
    /\ pc' = "idle"
    /\ UNCHANGED <<store, nreq, ticket_request, ticket_id, similar_tickets,
                   index_failed, use_database_solution, response_source,
                   llm_output, ai_analysis, generator_calls, recorder_calls,
                   store_at_start>>
    /\ UNCHANGED <<call, returned, collections, tasks>>

Next ==
    \/ \E department \in RequestDepartments,
          issue_description \in RequestDescriptions :
          process_ticket(department, issue_description)
    \/ _find_similar_tickets
    \/ decide
    \/ generate
    \/ _store_new_solution
    \/ respond

Spec == Init /\ [][Next]_vars

\* The current call has returned.
Returned == pc = "idle" /\ nreq > 0

\* The decision of the current call has been taken.
Decided == pc \in {"generate", "record", "respond"} \/ Returned

\* The current call took the regenerate branch and is past line 92.
Regenerated == ~use_database_solution /\ (pc = "respond" \/ Returned)

\* ----------------------------------------------------------------- claims
\* Jaccard index of two keyword sets at least 0.3 with at least two shared
\* keywords.
SufficientOverlap(A, B) ==
    /\ Cardinality(A \cap B) >= 2
    /\ 10 * Cardinality(A \cap B) >= 3 * Cardinality(A \cup B)

\* The decision rule on the ranked list: it is non-empty and its first
\* candidate scores at least 0.9, or at least 0.8 with sufficient overlap.
ReuseRule ==
    /\ Len(similar_tickets) >= 1
    /\ \/ similar_tickets[1].similarity_score >= 9000
       \/ /\ similar_tickets[1].similarity_score >= 8000
          /\ SufficientOverlap(KeywordsOf[ticket_request.issue_description],
                               KeywordsOf[similar_tickets[1].description])

\* C1: process_ticket chooses reuse (response_source "database") exactly when
\* the ranked list is non-empty and its first candidate scores at least 0.9,
\* or at least 0.8 with sufficient keyword overlap with the query; in every
\* other case, the empty list included, it chooses regenerate
\* (response_source "ai") and goes on to the generator.  Only the first
\* candidate counts.
Thm_C1 ==
    /\ Decided =>
          /\ use_database_solution = ReuseRule
          /\ response_source = IF ReuseRule THEN "database" ELSE "ai"
          /\ pc = "generate" => ~ReuseRule
          /\ pc = "record" => ~ReuseRule /\ generator_calls = 1
    /\ Returned =>
          /\ response.response_source = "database" <=> ReuseRule
          /\ generator_calls = (IF ReuseRule THEN 0 ELSE 1)

\* C1 witness: a call regenerated although a later candidate of its list
\* scores in the 0.8 band and shares the query's keywords, the first one
\* scoring as much without sharing them.
Wit_C1 ==
    /\ Returned
    /\ Len(similar_tickets) = 2
    /\ similar_tickets[1].similarity_score = 8500
    /\ similar_tickets[2].similarity_score = 8500
    /\ SufficientOverlap(KeywordsOf[ticket_request.issue_description],
                         KeywordsOf[similar_tickets[2].description])
    /\ ~use_database_solution
    /\ response.response_source = "ai"

\* C2: the response names a source ticket exactly when its source is
\* "database", whatever the generator returned.
CE_C2 ==
    Returned =>
        (response.source_ticket_id # JNull <=> response.response_source = "database")

\* The confidence process_ticket reports for a generator outcome: 0.1 when
\* the call failed, 0.5 when its text was no JSON, else the reported value
\* when it is a number within [0, 1] (true counting as 1.0) or NaN, and 0.5
\* for any other value.
ReportedConfidence(out) ==
    CASE out.kind \in {"raise", "nondict"} -> JNum(1000)
      [] out.kind = "unparsable" -> JNum(5000)
      [] OTHER ->
            LET c == out.d.confidence_score
            IN  CASE c.t = "num" /\ 0 <= c.n /\ c.n <= 10000 -> c
                  [] c.t = "bool" -> JNum(c.n)
                  [] c.t = "nan" -> c
                  [] OTHER -> JNum(5000)

\* C3 as stated: the confidence of a reuse response is the similarity score
\* of the reused candidate, and the confidence of a regenerate response is
\* the confidence the generator reported.
CE_C3 ==
    Returned =>
        /\ response.response_source = "database" =>
              response.confidence_score = JNum(similar_tickets[1].similarity_score)
        /\ response.response_source = "ai" =>
              /\ llm_output.kind = "dict"
              /\ response.confidence_score = llm_output.d.confidence_score

\* C3: the confidence of a reuse response is the similarity score of the
\* reused candidate; the confidence of a regenerate response is the one
\* analyze_ticket returned: the generator's value when that is a number
\* within [0, 1], 0.5 when it is out of range or no number or the output is
\* no JSON, 0.1 when the generator call failed.
Thm_C3 ==
    Returned =>
        /\ response.response_source = "database" =>
              response.confidence_score = JNum(similar_tickets[1].similarity_score)
        /\ response.response_source = "ai" =>
              response.confidence_score = ReportedConfidence(llm_output)

\* C3 witness: the generator reported 1.7 and the response carries 0.5.
Wit_C3 ==
    /\ Returned
    /\ response.response_source = "ai"
    /\ llm_output.kind = "dict"
    /\ llm_output.d.confidence_score = JNum(17000)
    /\ response.confidence_score = JNum(5000)

\* C4: a record is appended to the store only when the returned response's
\* source is regenerate; a reuse or a fallback response leaves the store as
\* it was.
CE_C4 ==
    Returned /\ response.response_source \in {"database", "fallback"} =>
        store = store_at_start

\* C5: on the regenerate branch the generator is invoked once and then the
\* recorder once, with the request's description and the generated solution,
\* issue type and urgency, whatever the generator returned.
Thm_C5 ==
    /\ pc = "generate" => generator_calls = 0 /\ recorder_calls = <<>>
    /\ pc = "record" => generator_calls = 1 /\ recorder_calls = <<>>
    /\ Regenerated =>
          LET generated ==
                  analyze_ticket(ticket_request.issue_description, llm_output)
          IN  /\ generator_calls = 1
              /\ llm_output \in GeneratorOutputs
              /\ recorder_calls =
                    <<[description |-> ticket_request.issue_description,
                       solution    |-> generated.solution,
                       issue_type  |-> generated.issue_type,
                       urgency     |-> generated.urgency]>>

\* C5 witness: the generator call failed and the recorder was still invoked,
\* with the degraded analysis.
Wit_C5 ==
    /\ Returned
    /\ llm_output.kind = "raise"
    /\ Len(recorder_calls) = 1
    /\ recorder_calls[1].solution = JStr(AI_UNAVAILABLE_SOLUTION)

\* C6: a reuse response takes its solution, issue type and urgency from the
\* first candidate and names that candidate as its source ticket; the
\* generator and the recorder are not invoked and the store is unchanged.
Thm_C6 ==
    /\ use_database_solution /\ Decided =>
          /\ generator_calls = 0
          /\ recorder_calls = <<>>
          /\ store = store_at_start
    /\ use_database_solution /\ Returned =>
          /\ response.response_source = "database"
          /\ response.ai_generated_solution = similar_tickets[1].resolution
          /\ response.issue_type = similar_tickets[1].issue_type
          /\ response.urgency = similar_tickets[1].urgency
          /\ response.source_ticket_id = JStr(similar_tickets[1].id)

\* C6 witness: the second call reuses the solution the first call generated
\* and stored.
Wit_C6 ==
    /\ Returned
    /\ use_database_solution
    /\ nreq = 2
    /\ response.source_ticket_id = JStr("TKT-1")
    /\ response.ai_generated_solution = "Restart the VPN client."

\* C7: process_ticket always returns a response; when the pipeline raised,
\* that response is the fixed fallback: source "fallback", confidence 0.1,
\* issue type other, urgency medium, the apology text, no similar tickets
\* and the contact it-support@company.com.
Thm_C7 ==
    Returned =>
        /\ response # NoResponse
        /\ response.response_source \in {"database", "ai", "fallback"}
        /\ response.ticket_id = ticket_id
        /\ exc = "none" <=> response.response_source # "fallback"
        /\ exc # "none" =>
              /\ response.response_source = "fallback"
              /\ response.confidence_score = JNum(1000)
              /\ response.issue_type = "other"
              /\ response.urgency = "medium"
              /\ response.ai_generated_solution =
                    "We're experiencing technical difficulties. Please contact IT support directly for immediate assistance."
              /\ response.similar_tickets = <<>>
              /\ response.escalation_contact = "it-support@company.com"
              /\ response.source_ticket_id = JNull

\* C7 witness: building the response raised, for a request of the hr
\* department whose ranked list was not empty.
Wit_C7 ==
    /\ Returned
    /\ exc # "none"
    /\ ticket_request.department = "hr"
    /\ similar_tickets # <<>>
    /\ response.response_source = "fallback"

\* C8: when the generator's output lacks a confidence value or carries one
\* that is no number, process_ticket still returns a regenerate response and
\* its confidence is 0.5.
CE_C8 ==
    Returned /\ llm_output.kind = "dict"
             /\ llm_output.d.confidence_score.t \in {"absent", "null", "str", "list"} =>
        /\ response.response_source = "ai"
        /\ response.confidence_score = JNum(5000)

\* C9: validation turns an unrecognised issue type into other, an
\* unrecognised urgency into medium and a confidence outside [0, 1] into 0.5
\* and leaves valid values as they are, so that a regenerate response has a
\* confidence within [0, 1], a valid issue type and a valid urgency.
CE_C9 ==
    /\ Regenerated /\ llm_output.kind = "dict" =>
          LET raw == llm_output.d
              InRange(c) == c.t = "num" /\ 0 <= c.n /\ c.n <= 10000
          IN  /\ ai_analysis.issue_type =
                    (IF raw.issue_type \in {JStr(v) : v \in IssueType}
                     THEN raw.issue_type ELSE JStr("other"))
              /\ ai_analysis.urgency =
                    (IF raw.urgency \in {JStr(v) : v \in UrgencyLevel}
                     THEN raw.urgency ELSE JStr("medium"))
              /\ InRange(raw.confidence_score) =>
                    ai_analysis.confidence_score = raw.confidence_score
              /\ raw.confidence_score.t \in {"num", "nan"}
                    /\ ~InRange(raw.confidence_score) =>
                    ai_analysis.confidence_score = JNum(5000)
    /\ Returned /\ response.response_source = "ai" =>
          /\ response.confidence_score.t = "num"
          /\ 0 <= response.confidence_score.n
          /\ response.confidence_score.n <= 10000
          /\ response.issue_type \in IssueType
          /\ response.urgency \in UrgencyLevel

\* C10: when the index query fails the ranker yields the empty list and
\* process_ticket goes on to regenerate: the generator is invoked and the
\* response's source is "ai", not the fallback.
CE_C10 ==
    index_failed =>
        /\ pc # "rank" => similar_tickets = <<>>
        /\ Decided => ~use_database_solution
        /\ Returned =>
              /\ generator_calls = 1
              /\ response.response_source = "ai"

\* The response process_ticket returns on the regenerate branch, as a function
\* of the request, the candidates and the generator's output alone.
RegenerateResponse(id, request, tickets, out) ==
    LET analysis == analyze_ticket(request.issue_description, out)
    IN  IF ResponseError(analysis) = "none"
        THEN TicketResponse(id, request, analysis, tickets, "ai")
        ELSE FallbackResponse(id, request)

\* The recorder of the current call was given a record it could not store,
\* or its append to the collection failed.
RecordingFailed == Regenerated /\ store = store_at_start

\* C11: a failure of the recording step never changes the response: on the
\* regenerate branch the response is determined by the request, the
\* candidates and the generator's output, whether the append succeeded or
\* failed, and a response is returned in both cases.
Thm_C11 ==
    /\ Regenerated =>
          ai_analysis = analyze_ticket(ticket_request.issue_description, llm_output)
    /\ Regenerated /\ pc = "idle" =>
          /\ response # NoResponse
          /\ response =
                RegenerateResponse(ticket_id, ticket_request, similar_tickets,
                                   llm_output)
          /\ exc = ResponseError(ai_analysis)

\* C11 witness: the append of a well-formed record failed and the call
\* returned the generated solution.
Wit_C11 ==
    /\ Returned
    /\ RecordingFailed
    /\ TicketMetadataValidates(ai_analysis)
    /\ response.response_source = "ai"
    /\ response.ai_generated_solution = "Restart the VPN client."

\* C12: when the generator call fails (it raises, or its output is no JSON
\* object) on the regenerate branch, process_ticket still returns a
\* well-formed regenerate response: valid issue type and urgency, a solution
\* text, a confidence of at most 0.5 and a non-empty escalation contact that
\* is the one the routing table gives for the response's issue type.
Thm_C12 ==
    Returned /\ ~use_database_solution
             /\ llm_output.kind \in {"raise", "unparsable", "nondict"} =>
        /\ exc = "none"
        /\ response.response_source = "ai"
        /\ response.issue_type \in IssueType
        /\ response.urgency \in UrgencyLevel
        /\ response.ai_generated_solution # ""
        /\ response.confidence_score.t = "num"
        /\ response.confidence_score.n >= 0
        /\ response.confidence_score.n <= 5000
        /\ response.escalation_contact # ""
        /\ response.escalation_contact =
              _get_escalation_contact(response.issue_type,
                                      ticket_request.department)
        /\ response.escalation_contact = "general-support@company.com"

\* C12 witness: the generator's text was no JSON and the call returned a
\* regenerate response with confidence 0.5 and the routed contact.
Wit_C12 ==
    /\ Returned
    /\ llm_output.kind = "unparsable"
    /\ response.response_source = "ai"
    /\ response.confidence_score = JNum(5000)
    /\ response.escalation_contact = "general-support@company.com"

\* ------------------------------------------------- the ranker, on its own
\* Every variable of a process_ticket call at its initial value.
ServiceAtRest ==
    /\ nreq = 0
    /\ pc = "idle"
    /\ ticket_request = NoRequest
    /\ ticket_id = ""
    /\ similar_tickets = <<>>
    /\ index_failed = FALSE
    /\ use_database_solution = FALSE
    /\ response_source = "none"
    /\ llm_output = NoOutput
    /\ ai_analysis = EmptyDict
    /\ generator_calls = 0
    /\ recorder_calls = <<>>
    /\ exc = "none"
    /\ response = NoResponse
    /\ collections = NoCollections
    /\ tasks = NoTasks

ServiceVars ==
    <<store, nreq, pc, ticket_request, ticket_id, similar_tickets, index_failed,
      use_database_solution, response_source, llm_output, ai_analysis,
      generator_calls, recorder_calls, exc, response, store_at_start,
      collections, tasks>>

\* A stored record search_similar cannot parse: its issue type and urgency are
\* not values of the enums.
UnparsableRecord ==
    [id |-> "sample_003", ticket_id |-> "TKT-2024-BAD",
     description |-> "vpn keeps crashing",
     issue_type |-> "Technical", urgency |-> "Medium",
     resolution |-> "Restart the router.", resolved_date |-> "2024-12-01"]

\* The collection search_similar is called on.
RankerCollection ==
    <<VpnRecord, [PrinterRecord EXCEPT !.id = "sample_002"], UnparsableRecord>>

\* Raw distances in 1/Unit: 0, 0.2002, 0.3, 1.4008, 2 and 3.
RankerDistances == {0, 2002, 3000, 14008, 20000, 30000}
\* The limit and min_similarity arguments.
RankerLimits == {1, 2, SEARCH_LIMIT}
RankerFloors == {0, MIN_SIMILARITY}

\* The calls search_similar(query, limit, min_similarity), with the distances
\* of the documents to the query and the order in which the index ranks them.
RankerCalls ==
    {[fn |-> "search_similar", distance |-> distance, order |-> order,
      limit |-> limit, min_similarity |-> floor] :
        distance \in [1..Len(RankerCollection) -> RankerDistances],
        order \in [1..Len(RankerCollection) -> 1..Len(RankerCollection)],
        limit \in RankerLimits, floor \in RankerFloors}

InitRanker ==
    /\ store = RankerCollection
    /\ store_at_start = store
    /\ ServiceAtRest
    /\ call \in {c \in RankerCalls :
                     c.order \in Rankings(c.distance, Len(RankerCollection))}
    /\ returned = NoResult

\* The results collection.query gives the call.
QueryResults == collection_query(store, call.distance, call.order, call.limit)

\* search_similar(query, limit, min_similarity), lines 200-259: the ranked
\* list, or [] when the embedding or the query raises.
search_similar_call ==
    /\ call.fn = "search_similar"
    /\ returned = NoResult
    /\ \/ returned' = [kind |-> "list", raised |-> FALSE,
                       value |-> search_similar(QueryResults, call.min_similarity)]
       \/ returned' = [kind |-> "list", raised |-> TRUE, value |-> <<>>]
    /\ UNCHANGED ServiceVars
    /\ UNCHANGED call

NextRanker == search_similar_call

SpecRanker == InitRanker /\ [][NextRanker]_vars

\* The query result a returned candidate was built from.
ResultOf(candidate) ==
    CHOOSE r \in {QueryResults[i] : i \in 1..Len(QueryResults)} :
        r.metadata.ticket_id = candidate.id

\* C13: the score of every candidate search_similar returns is exactly
\* max(0, 1 - distance / 2) of the candidate's raw distance: 1.0 for distance
\* 0 and 0.0 for distances 2 and 3.
CE_C13 ==
    returned # NoResult =>
        \A i \in 1..Len(returned.value) :
            LET candidate == returned.value[i]
                d == ResultOf(candidate).distance
            IN  /\ 2 * candidate.similarity_score =
                      (IF d >= 20000 THEN 0 ELSE 20000 - d)
                /\ d = 0 => candidate.similarity_score = 10000
                /\ d \in {20000, 30000} => candidate.similarity_score = 0

\* C14: the list search_similar returns is ordered by non-increasing score,
\* holds no candidate whose computed similarity is below the min_similarity
\* floor, holds at most `limit` candidates, and every score in it lies in
\* [0, 1].
Thm_C14 ==
    returned # NoResult =>
        LET tickets == returned.value
        IN  /\ Len(tickets) <= call.limit
            /\ \A i \in 1..Len(tickets) :
                  /\ tickets[i].similarity_score >= 0
                  /\ tickets[i].similarity_score <= 10000
                  /\ LET d == ResultOf(tickets[i]).distance
                     IN  (IF d >= 20000 THEN 0 ELSE 20000 - d)
                            >= 2 * call.min_similarity
            /\ \A i, j \in 1..Len(tickets) :
                  i < j => tickets[i].similarity_score >= tickets[j].similarity_score

\* C14 witness: of three documents the call with limit 2 and floor 0.3
\* returned one, the other result lying just under the floor.
Wit_C14 ==
    /\ returned # NoResult
    /\ ~returned.raised
    /\ call.limit = 2
    /\ call.min_similarity = 3000
    /\ Len(QueryResults) = 2
    /\ QueryResults[1].distance = 3000
    /\ QueryResults[2].distance = 14008
    /\ Len(returned.value) = 1

\* ------------------------------------------ the keyword gate, on its own
\* Vocabulary entries the keyword sets of the gate are drawn from.
KeywordUniverse ==
    {"vpn", "crash", "crashing", "printer", "email", "wifi", "error"}

\* The calls: the gate on two keyword sets, and extract_keywords on a text.
KeywordCalls ==
    {[fn |-> "KeywordsMatch", query_keywords |-> A, reference_keywords |-> B] :
        A \in SUBSET KeywordUniverse, B \in SUBSET KeywordUniverse}
    \cup {[fn |-> "extract_keywords", text |-> text] : text \in DOMAIN TextChars}

InitKeywords ==
    /\ store = <<>>
    /\ store_at_start = store
    /\ ServiceAtRest
    /\ call \in KeywordCalls
    /\ returned = NoResult

\* Lines 222-233 applied to the keyword sets of the call.
KeywordsMatch_call ==
    /\ call.fn = "KeywordsMatch"
    /\ returned = NoResult
    /\ returned' =
          [kind |-> "bool",
           value |-> KeywordsMatch(call.query_keywords, call.reference_keywords)]
    /\ UNCHANGED ServiceVars
    /\ UNCHANGED call

\* extract_keywords(text), lines 199-217.
extract_keywords_call ==
    /\ call.fn = "extract_keywords"
    /\ returned = NoResult
    /\ returned' = [kind |-> "set", value |-> extract_keywords(call.text)]
    /\ UNCHANGED ServiceVars
    /\ UNCHANGED call

NextKeywords == KeywordsMatch_call \/ extract_keywords_call

SpecKeywords == InitKeywords /\ [][NextKeywords]_vars

\* C15: on keyword sets A and B the overlap predicate holds exactly when
\* |A n B| / |A u B| >= 0.3 and |A n B| >= 2; it is false whenever fewer than
\* two keywords are shared, whatever the ratio, and exchanging A and B does
\* not change it.
Thm_C15 ==
    call.fn = "KeywordsMatch" /\ returned # NoResult =>
        LET A == call.query_keywords
            B == call.reference_keywords
            shared == Cardinality(A \cap B)
            all == Cardinality(A \cup B)
        IN  /\ returned.value = (all > 0 /\ 10 * shared >= 3 * all /\ shared >= 2)
            /\ shared < 2 => returned.value = FALSE
            /\ returned.value = KeywordsMatch(B, A)

\* C15 witness: the sets share two of their seven keywords, a ratio under
\* 0.3, and the predicate is false.
Wit_C15 ==
    /\ call.fn = "KeywordsMatch"
    /\ returned # NoResult
    /\ Cardinality(call.query_keywords \cap call.reference_keywords) = 2
    /\ Cardinality(call.query_keywords \cup call.reference_keywords) = 7
    /\ returned.value = FALSE

\* C16: the Jaccard value of the gate is 1 for two equal non-empty keyword
\* sets and 0 for two empty ones (for which the gate is false).
Thm_C16 ==
    call.fn = "KeywordsMatch" /\ returned # NoResult =>
        LET A == call.query_keywords
            B == call.reference_keywords
        IN  /\ A = B /\ A # {} =>
                  /\ keyword_similarity(A, B) = 10000
                  /\ returned.value = (Cardinality(A) >= 2)
            /\ A = {} /\ B = {} =>
                  /\ keyword_similarity(A, B) = 0
                  /\ returned.value = FALSE

\* C16 witness: the gate was applied to two empty keyword sets.
Wit_C16 ==
    /\ call.fn = "KeywordsMatch"
    /\ returned # NoResult
    /\ call.query_keywords = {}
    /\ call.reference_keywords = {}
    /\ returned.value = FALSE

\* The letters of a text: its characters in lower case, punctuation left out.
LettersOf(text) ==
    SelectSeq([i \in 1..Len(TextChars[text]) |-> Lower(TextChars[text][i])],
              LAMBDA c : c \notin Punctuation)

\* C18: the keywords extracted from a text are exactly the vocabulary entries
\* occurring in it as substrings once it is lower-cased and its punctuation is
\* replaced by spaces; they are vocabulary entries only, they are the same
\* for two texts that differ only in letter case or punctuation, and the
\* same on every call.
CE_C18 ==
    call.fn = "extract_keywords" /\ returned # NoResult =>
        /\ returned.value \subseteq (DOMAIN tech_keywords \cup DOMAIN action_keywords)
        /\ returned.value = extract_keywords(call.text)
        /\ \A other \in DOMAIN TextChars :
              LettersOf(other) = LettersOf(call.text) =>
                  extract_keywords(other) = returned.value

\* The first candidate of the ranked list scores in the band [0.8, 0.9).
InBand ==
    /\ Len(similar_tickets) >= 1
    /\ similar_tickets[1].similarity_score >= 8000
    /\ similar_tickets[1].similarity_score < 9000

\* C17: with a first candidate scoring in [0.8, 0.9) the keyword overlap
\* decides: 'vpn crashing' for the query 'vpn keeps crashing when opened' is
\* reused, 'printer jammed' for the query 'vpn keeps crashing' is not and
\* the generator is called.
Thm_C17 ==
    Decided /\ InBand =>
        LET query == ticket_request.issue_description
            candidate == similar_tickets[1].description
        IN  /\ use_database_solution =
                  SufficientOverlap(KeywordsOf[query], KeywordsOf[candidate])
            /\ candidate = "vpn crashing" /\ query = "vpn keeps crashing when opened" =>
                  /\ use_database_solution
                  /\ response_source = "database"
                  /\ generator_calls = 0
            /\ candidate = "printer jammed" /\ query = "vpn keeps crashing" =>
                  /\ ~use_database_solution
                  /\ response_source = "ai"
                  /\ pc # "generate" => generator_calls = 1

\* C17 witness: a call returned a reused solution for the query 'vpn keeps
\* crashing when opened', its first candidate 'vpn crashing' scoring 0.85.
Wit_C17 ==
    /\ Returned
    /\ InBand
    /\ ticket_request.issue_description = "vpn keeps crashing when opened"
    /\ similar_tickets[1].description = "vpn crashing"
    /\ similar_tickets[1].similarity_score = 8500
    /\ response.response_source = "database"
    /\ generator_calls = 0

\* ------------------------------------------ the escalation router, on its own
\* Issue types and departments of the calls: the enumerations, the
\* classification of test_data.py, and names outside both.
RouterIssueTypes == IssueType \cup {"Technical", "unknown-type"}
RouterDepartments == Department \cup {"default", "legal"}

RouterCalls ==
    {[fn |-> "_get_escalation_contact", issue_type |-> t, department |-> d] :
        t \in RouterIssueTypes, d \in RouterDepartments}

InitRouter ==
    /\ store = <<>>
    /\ store_at_start = store
    /\ ServiceAtRest
    /\ call \in RouterCalls
    /\ returned = NoResult

\* _get_escalation_contact(issue_type, department), lines 251-258.
_get_escalation_contact_call ==
    /\ call.fn = "_get_escalation_contact"
    /\ returned = NoResult
    /\ returned' =
          [kind |-> "str", raised |-> FALSE,
           value |-> _get_escalation_contact(call.issue_type, call.department)]
    /\ UNCHANGED ServiceVars
    /\ UNCHANGED call

NextRouter == _get_escalation_contact_call

SpecRouter == InitRouter /\ [][NextRouter]_vars

\* C19: the router returns table[type][dept] when that entry exists, else
\* table[type]["default"] when the type is known, else support@company.com;
\* ("hardware", "it") goes to hardware-support@company.com, ("hardware",
\* "hr") to it-support@company.com, an unknown type to the global default;
\* it returns an address on every input and never fails.
Thm_C19 ==
    call.fn = "_get_escalation_contact" /\ returned # NoResult =>
        LET t == call.issue_type
            d == call.department
            known == t \in {"hardware", "software", "network", "access", "other"}
        IN  /\ ~returned.raised
            /\ returned.value # ""
            /\ known /\ d \in DOMAIN escalation_contacts[t] =>
                  returned.value = escalation_contacts[t][d]
            /\ known /\ d \notin DOMAIN escalation_contacts[t] =>
                  returned.value = escalation_contacts[t]["default"]
            /\ ~known => returned.value = "support@company.com"
            /\ t = "hardware" /\ d = "it" =>
                  returned.value = "hardware-support@company.com"
            /\ t = "hardware" /\ d = "hr" =>
                  returned.value = "it-support@company.com"

\* C19 witness: ("hardware", "hr") has no entry of its own and was routed to
\* the default of its issue type.
Wit_C19 ==
    /\ call.fn = "_get_escalation_contact"
    /\ returned # NoResult
    /\ call.issue_type = "hardware"
    /\ call.department = "hr"
    /\ returned.value = "it-support@company.com"

\* ------------------------------------ the three operations of the service
\* issue_description: str = Field(..., min_length=10, ...)
MIN_ISSUE_LENGTH == 10

\* Whether TicketRequest(name, department, issue_description) validates.
TicketRequestValidates(issue_description) ==
    Len(TextChars[issue_description]) >= MIN_ISSUE_LENGTH

\* The exception lines 360-383 of regenerate_ai_solution raise on
\* ai_analysis, "none" when they build the response.
RegenerateError(analysis) ==
    CASE analysis.issue_type = Absent -> "KeyError"
      [] analysis.issue_type.t # "str" \/ analysis.issue_type.s \notin IssueType
            -> "ValueError"
      [] analysis.urgency = Absent -> "KeyError"
      [] analysis.urgency.t # "str" \/ analysis.urgency.s \notin UrgencyLevel
            -> "ValueError"
      [] analysis.solution = Absent -> "KeyError"
      [] analysis.confidence_score = Absent -> "KeyError"
      [] \/ ~IsValidStr(analysis.solution)
         \/ ~IsIntOrFloat(analysis.confidence_score)
            -> "ValidationError"
      [] OTHER -> "none"

REGENERATE_FALLBACK_SOLUTION ==
    "We're experiencing technical difficulties generating a new solution. Please contact IT support directly."

\* TicketResponse(...) of lines 369-383.
RegeneratedTicketResponse(regenerate_request, analysis, tickets) ==
    [ticket_id             |-> regenerate_request.ticket_id,
     department            |-> regenerate_request.department,
     issue_description     |-> regenerate_request.original_issue,
     issue_type            |-> analysis.issue_type.s,
     urgency               |-> analysis.urgency.s,
     ai_generated_solution |-> analysis.solution.s,
     similar_tickets       |-> SubSeq(tickets, 1, Min(TOP_N, Len(tickets))),
     escalation_contact    |->
        _get_escalation_contact(analysis.issue_type.s,
                                regenerate_request.department),
     confidence_score      |-> AsFloat(analysis.confidence_score),
     response_source       |-> "ai_regenerated",
     source_ticket_id      |-> JNull]

\* TicketResponse(...) of the except branch, lines 395-408.
RegenerateFallbackResponse(regenerate_request) ==
    [ticket_id             |-> regenerate_request.ticket_id,
     department            |-> regenerate_request.department,
     issue_description     |-> regenerate_request.original_issue,
     issue_type            |-> "other",
     urgency               |-> "medium",
     ai_generated_solution |-> REGENERATE_FALLBACK_SOLUTION,
     similar_tickets       |-> <<>>,
     escalation_contact    |-> FALLBACK_CONTACT,
     confidence_score      |-> JNum(FALLBACK_CONFIDENCE),
     response_source       |-> "fallback",
     source_ticket_id      |-> JNull]

\* Regenerate requests: the ticket of the first process_ticket call, with an
\* issue text of the requests or one shorter than ten characters.
RegenerateRequests ==
    [ticket_id : {"TKT-1"}, department : RequestDepartments,
     original_issue : RequestDescriptions \cup {"vpn down"}]

\* What the knowledge-base endpoint may be asked to add.
ResolvedTickets ==
    {[ticket_metadata |->
         [ticket_id |-> "TKT-1", issue_type |-> "network", urgency |-> "high",
          resolved_date |-> "2024-12-01"],
      description |-> "vpn crashing",
      resolution |-> "Reinstall the VPN client."],
     [ticket_metadata |->
         [ticket_id |-> "TKT-2024-BAD", issue_type |-> "Technical",
          urgency |-> "Medium", resolved_date |-> "2024-12-01"],
      description |-> "vpn keeps crashing",
      resolution |-> "Restart the router."]}

\* regenerate_ai_solution(regenerate_request), lines 335-347: the call
\* begins and builds its temporary TicketRequest; when that raises, the
\* except branch (lines 391-408) returns the fallback response.
regenerate_ai_solution(regenerate_request) ==
    /\ pc = "idle"
    /\ nreq < MaxRequests
    /\ nreq' = nreq + 1
    /\ ticket_id' = regenerate_request.ticket_id
    /\ ticket_request' =
          [department |-> regenerate_request.department,
           issue_description |-> regenerate_request.original_issue]
    /\ store_at_start' = store
    /\ use_database_solution' = FALSE
    /\ response_source' = "ai_regenerated"
    /\ llm_output' = NoOutput
    /\ ai_analysis' = EmptyDict
    /\ generator_calls' = 0
    /\ similar_tickets' = <<>>
    /\ index_failed' = FALSE
    /\ recorder_calls' = <<>>
    /\ IF TicketRequestValidates(regenerate_request.original_issue)
       THEN /\ exc' = "none"
            /\ response' = NoResponse
            /\ pc' = "regenerate"
       ELSE /\ exc' = "ValidationError"
            /\ response' = RegenerateFallbackResponse(regenerate_request)
            /\ pc' = "idle"
    /\ UNCHANGED store
    /\ UNCHANGED <<call, returned, collections, tasks>>

\* The RegenerateRequest of the call in progress.
CurrentRegenerateRequest ==
    [ticket_id |-> ticket_id, department |-> ticket_request.department,
     original_issue |-> ticket_request.issue_description]

\* Lines 349-408 of regenerate_ai_solution: the generator, the candidates,
\* the response, then the recorder; when building the response raises, the
\* except branch returns the fallback response and nothing is recorded.
regenerate_respond ==
    /\ pc = "regenerate"
    /\ \E out \in GeneratorOutputs :
          /\ llm_output' = out
          /\ ai_analysis' = analyze_ticket(ticket_request.issue_description, out)
    /\ generator_calls' = generator_calls + 1
    /\ \/ /\ index_failed' = TRUE
          /\ similar_tickets' = <<>>
       \/ \E distance \in [1..Len(store) -> Distances] :
          \E order \in Rankings(distance, Len(store)) :
             /\ index_failed' = FALSE
             /\ similar_tickets' =
                   search_similar(
                       collection_query(store, distance, order, SEARCH_LIMIT),
                       MIN_SIMILARITY)
    /\ exc' = RegenerateError(ai_analysis')
    /\ IF RegenerateError(ai_analysis') # "none"
       THEN /\ response' = RegenerateFallbackResponse(CurrentRegenerateRequest)
            /\ recorder_calls' = recorder_calls
            /\ store' = store
       ELSE /\ response' =
                  RegeneratedTicketResponse(CurrentRegenerateRequest,
                                            ai_analysis', similar_tickets')
            /\ recorder_calls' =
                  Append(recorder_calls,
                         [description |-> ticket_request.issue_description,
                          solution    |-> ai_analysis'.solution,
                          issue_type  |-> ai_analysis'.issue_type,
                          urgency     |-> ai_analysis'.urgency])
            /\ store' \in
                  VectorService_add_resolved_ticket(
                      store,
                      [ticket_id     |-> ticket_id,
                       issue_type    |-> ai_analysis'.issue_type.s,
                       urgency       |-> ai_analysis'.urgency.s,
                       resolved_date |-> NOW_ISO],
                      ticket_request.issue_description,
                      ai_analysis'.solution.s)
    /\ pc' = "idle"
    /\ UNCHANGED <<nreq, ticket_request, ticket_id, use_database_solution,
                   response_source, store_at_start>>
    /\ UNCHANGED <<call, returned, collections, tasks>>

\* TicketService.add_resolved_ticket(ticket_metadata, description,
\* resolution), lines 325-333: True when the document was added, False when
\* the vector service raised.
add_resolved_ticket(ticket_metadata, description, resolution) ==
    /\ pc = "idle"
    /\ nreq < MaxRequests
    /\ nreq' = nreq + 1
    /\ store' \in
          VectorService_add_resolved_ticket(store, ticket_metadata, description,
                                            resolution)
    /\ returned' = [kind |-> "bool", value |-> store' # store]
    /\ store_at_start' = store
    /\ UNCHANGED <<pc, ticket_request, ticket_id, similar_tickets, index_failed,
                   use_database_solution, response_source, llm_output,
                   ai_analysis, generator_calls, recorder_calls, exc, response>>
    /\ UNCHANGED <<call, collections, tasks>>

NextEngine ==
    \/ Next
    \/ \E regenerate_request \in RegenerateRequests :
          regenerate_ai_solution(regenerate_request)
    \/ regenerate_respond
    \/ \E resolved \in ResolvedTickets :
          add_resolved_ticket(resolved.ticket_metadata, resolved.description,
                              resolved.resolution)

SpecEngine == Init /\ [][NextEngine]_vars

\* C20: across process_ticket, regenerate_ai_solution and
\* add_resolved_ticket a record of the store is never modified or removed:
\* every step leaves the store as it is or appends exactly one record to it,
\* under an identifier no record of the store has.
Thm_C20 ==
    [][\/ store' = store
       \/ /\ Len(store') = Len(store) + 1
          /\ SubSeq(store', 1, Len(store)) = store
          /\ store'[Len(store')].id \notin DocIds(store)]_vars

\* C20 witness: the store holds three records under three identifiers, two
\* of them solutions recorded for the same ticket.
Wit_C20 ==
    /\ Len(store) = 3
    /\ Cardinality(DocIds(store)) = 3
    /\ store[2].ticket_id = "TKT-1"
    /\ store[3].ticket_id = "TKT-1"
    /\ SubSeq(store, 1, Len(store_at_start)) = store_at_start
    /\ Len(store_at_start) = 2

\* The order of the steps of one process_ticket call.
StepOrder ==
    {<<"idle", "rank">>, <<"rank", "decide">>, <<"decide", "generate">>,
     <<"decide", "respond">>, <<"generate", "record">>, <<"record", "respond">>,
     <<"respond", "idle">>}

\* C21: within one process_ticket call the steps occur in the order rank,
\* decide, generate, record, route contact: the candidates are set by the
\* ranker before the decision, the generator is called only after the
\* decision, the recorder only after the generator has returned, and the
\* response with its escalation contact is built after them, in the step
\* that returns it.
Thm_C21 ==
    [][/\ pc' # pc => <<pc, pc'>> \in StepOrder
       /\ similar_tickets' # similar_tickets =>
             \/ pc = "rank" /\ pc' = "decide"
             \/ pc = "idle" /\ similar_tickets' = <<>>
       /\ use_database_solution' # use_database_solution =>
             pc \in {"decide", "idle"}
       /\ generator_calls' # generator_calls =>
             \/ pc = "generate" /\ generator_calls' = 1 /\ ~use_database_solution
             \/ pc = "idle" /\ generator_calls' = 0
       /\ recorder_calls' # recorder_calls =>
             \/ /\ pc = "record"
                /\ generator_calls = 1
                /\ Len(recorder_calls') = 1
             \/ pc = "idle" /\ recorder_calls' = <<>>
       /\ response' # response =>
             \/ /\ pc = "respond" /\ pc' = "idle"
                /\ response'.escalation_contact # ""
                /\ use_database_solution \/
                      (generator_calls = 1 /\ Len(recorder_calls) = 1)
             \/ pc = "idle" /\ response' = NoResponse]_vars

\* C21 witness: a call that regenerated has returned; its generator and its
\* recorder were each called once and the response carries a contact.
Wit_C21 ==
    /\ Returned
    /\ ~use_database_solution
    /\ similar_tickets # <<>>
    /\ generator_calls = 1
    /\ Len(recorder_calls) = 1
    /\ response.response_source = "ai"
    /\ response.escalation_contact # ""

\* ------------------------------- first use of the admin collections
\* Callers in flight at once.
MaxCallers == 2

NoTask == [fn |-> "none", name |-> "", data |-> "", pc |-> "none", error |-> "none"]

\* The collection each function stores into.
CollectionOf ==
    [store_resolved_ticket |-> "resolved_tickets",
     store_escalated_ticket |-> "escalated_tickets"]

\* The tickets the callers store.
StoredTicketIds == {"TKT-1", "TKT-2"}

InitCollections ==
    /\ store = <<>>
    /\ store_at_start = store
    /\ nreq = 0
    /\ pc = "idle"
    /\ ticket_request = NoRequest
    /\ ticket_id = ""
    /\ similar_tickets = <<>>
    /\ index_failed = FALSE
    /\ use_database_solution = FALSE
    /\ response_source = "none"
    /\ llm_output = NoOutput
    /\ ai_analysis = EmptyDict
    /\ generator_calls = 0
    /\ recorder_calls = <<>>
    /\ exc = "none"
    /\ response = NoResponse
    /\ call = NoCall
    /\ returned = NoResult
    /\ collections = NoCollections
    /\ tasks = [caller \in 1..MaxCallers |-> NoTask]

\* A caller arrives at its await of store_resolved_ticket(data) or
\* store_escalated_ticket(data).
store_ticket_call(caller, fn, data) ==
    /\ tasks[caller] = NoTask
    /\ tasks' = [tasks EXCEPT ![caller] =
                    [fn |-> fn, name |-> CollectionOf[fn], data |-> data,
                     pc |-> "called", error |-> "none"]]
    /\ UNCHANGED <<store, nreq, pc, ticket_request, ticket_id, similar_tickets,
                   index_failed, use_database_solution, response_source,
                   llm_output, ai_analysis, generator_calls, recorder_calls,
                   exc, response, store_at_start, call, returned, collections>>

\* The body of store_resolved_ticket (lines 288-316) or of
\* store_escalated_ticket (lines 380-408) runs to its end: it holds no await
\* once the client exists, so no other caller runs in between.
store_ticket_run(caller) ==
    /\ tasks[caller].pc = "called"
    /\ \E outcome \in StoreTicket(collections, tasks[caller].name,
                                   tasks[caller].data) :
          /\ collections' = outcome.cols
          /\ tasks' = [tasks EXCEPT
                          ![caller].pc = IF outcome.raised THEN "raised" ELSE "stored",
                          ![caller].error = outcome.error]
    /\ UNCHANGED <<store, nreq, pc, ticket_request, ticket_id, similar_tickets,
                   index_failed, use_database_solution, response_source,
                   llm_output, ai_analysis, generator_calls, recorder_calls,
                   exc, response, store_at_start, call, returned>>

NextCollections ==
    \/ \E caller \in 1..MaxCallers, fn \in DOMAIN CollectionOf,
          data \in StoredTicketIds :
          store_ticket_call(caller, fn, data)
    \/ \E caller \in 1..MaxCallers : store_ticket_run(caller)

SpecCollections == InitCollections /\ [][NextCollections]_vars

\* C22: when two callers concurrently make first use of the same named
\* collection, neither fails in its get-or-create: no caller's
\* create_collection raises because the other created the collection in
\* between, and a caller whose add did not fail has stored its document.
Thm_C22 ==
    \A caller \in 1..MaxCallers :
        /\ tasks[caller].error # "create_collection"
        /\ tasks[caller].pc \in {"stored", "raised"} =>
              collections[tasks[caller].name].exists
        /\ tasks[caller].pc = "stored" =>
              \E i \in 1..Len(collections[tasks[caller].name].docs) :
                  collections[tasks[caller].name].docs[i].metadata =
                      tasks[caller].data

\* C22 witness: two callers were in flight together before the collection
\* existed, and both stored their document in it.
Wit_C22 ==
    /\ tasks[1].pc = "stored"
    /\ tasks[2].pc = "stored"
    /\ tasks[1].name = "resolved_tickets"
    /\ tasks[2].name = "resolved_tickets"
    /\ Len(collections["resolved_tickets"].docs) = 2
    /\ ~collections["escalated_tickets"].exists

\* --------------------------------------------------------- escalate_ticket
\* What generate_escalation may return: the parsed JSON of the model, whose
\* keys and values are not validated, or one of its two fixed dictionaries
\* (unparsable text: priority "medium"; a failed call: priority "high").
EscalationPriorities == {JStr("high"), JStr("medium"), JStr("urgent"), Absent}
EscalationInfos ==
    [assigned_to : {JStr("IT Support Manager"), Absent},
     priority : EscalationPriorities,
     estimated_response_time : {JStr("2 hours"), Absent}]

NoEscalationInfo ==
    [assigned_to |-> Absent, priority |-> Absent,
     estimated_response_time |-> Absent]

NoEscalation ==
    [fn |-> "none", ticket_id |-> "", pc |-> "none",
     escalation_info |-> NoEscalationInfo, minted |-> <<>>,
     escalation_id |-> "", priority |-> ""]

\* Escalation ids minted so far, over all calls.
MintedIds(ts) ==
    UNION {{ts[c].minted[i] : i \in 1..Len(ts[c].minted)} : c \in DOMAIN ts}

\* f"ESC-{date}-{uuid4().hex[:6].upper()}": an id not minted before.
FreshEscalationId(ts) == "ESC-" \o ToString(Cardinality(MintedIds(ts)) + 1)

\* The exception building escalated_data raises (lines 282-295), "none" when
\* the dictionary is built.
EscalatedDataError(info) ==
    IF info.assigned_to = Absent \/ info.priority = Absent
    THEN "KeyError" ELSE "none"

\* The exception EscalationResponse(...) raises (lines 300-307), "none" when
\* the response is built.
EscalationResponseError(info) ==
    CASE info.priority.s \notin UrgencyLevel -> "ValueError"
      [] info.estimated_response_time = Absent -> "KeyError"
      [] OTHER -> "none"

InitEscalation ==
    /\ store = <<>>
    /\ store_at_start = store
    /\ nreq = 0
    /\ pc = "idle"
    /\ ticket_request = NoRequest
    /\ ticket_id = ""
    /\ similar_tickets = <<>>
    /\ index_failed = FALSE
    /\ use_database_solution = FALSE
    /\ response_source = "none"
    /\ llm_output = NoOutput
    /\ ai_analysis = EmptyDict
    /\ generator_calls = 0
    /\ recorder_calls = <<>>
    /\ exc = "none"
    /\ response = NoResponse
    /\ call = NoCall
    /\ returned = NoResult
    /\ collections = NoCollections
    /\ tasks = [caller \in 1..MaxCallers |-> NoEscalation]

\* escalate_ticket(escalation_request), lines 260-276: the call begins and
\* awaits generate_escalation, which returns a dictionary.
escalate_ticket(caller, escalation_request_ticket_id) ==
    /\ tasks[caller] = NoEscalation
    /\ \E info \in EscalationInfos :
          tasks' = [tasks EXCEPT ![caller] =
                      [fn |-> "escalate_ticket",
                       ticket_id |-> escalation_request_ticket_id,
                       pc |-> "generated", escalation_info |-> info,
                       minted |-> <<>>, escalation_id |-> "", priority |-> ""]]
    /\ UNCHANGED <<store, nreq, pc, ticket_request, ticket_id, similar_tickets,
                   index_failed, use_database_solution, response_source,
                   llm_output, ai_analysis, generator_calls, recorder_calls,
                   exc, response, store_at_start, call, returned, collections>>

\* Lines 278-323: the escalation id is minted, the record is stored, the
\* response is built; whatever raises on the way leads to the except branch,
\* which mints another id for its fallback response.
escalate_store_respond(caller) ==
    /\ tasks[caller].pc = "generated"
    /\ LET task == tasks[caller]
           info == task.escalation_info
           escalation_id == FreshEscalationId(tasks)
           minted == [tasks EXCEPT ![caller].minted = <<escalation_id>>]
           fallback_id == FreshEscalationId(minted)
           escalated_data ==
               [ticket_id |-> task.ticket_id, escalation_id |-> escalation_id]
           Fallback ==
               [task EXCEPT !.pc = "returned",
                            !.minted = <<escalation_id, fallback_id>>,
                            !.escalation_id = fallback_id,
                            !.priority = "high"]
       IN  IF EscalatedDataError(info) # "none"
           THEN /\ tasks' = [tasks EXCEPT ![caller] = Fallback]
                /\ UNCHANGED collections
           ELSE \E outcome \in
                      StoreTicket(collections, "escalated_tickets", escalated_data) :
                   /\ collections' = outcome.cols
                   /\ tasks' =
                         [tasks EXCEPT ![caller] =
                            IF outcome.raised \/ EscalationResponseError(info) # "none"
                            THEN Fallback
                            ELSE [task EXCEPT !.pc = "returned",
                                              !.minted = <<escalation_id>>,
                                              !.escalation_id = escalation_id,
                                              !.priority = info.priority.s]]
    /\ UNCHANGED <<store, nreq, pc, ticket_request, ticket_id, similar_tickets,
                   index_failed, use_database_solution, response_source,
                   llm_output, ai_analysis, generator_calls, recorder_calls,
                   exc, response, store_at_start, call, returned>>

NextEscalation ==
    \/ \E caller \in 1..MaxCallers, id \in StoredTicketIds :
          escalate_ticket(caller, id)
    \/ \E caller \in 1..MaxCallers : escalate_store_respond(caller)

SpecEscalation == InitEscalation /\ [][NextEscalation]_vars

\* The escalated-ticket records the call of `caller` stored.
StoredBy(caller) ==
    LET docs == collections["escalated_tickets"].docs
    IN  {docs[i].metadata : i \in 1..Len(docs)} \cap
        {[ticket_id |-> tasks[caller].ticket_id, escalation_id |-> id] :
            id \in {tasks[caller].minted[k] : k \in 1..Len(tasks[caller].minted)}}

\* C25: whenever escalate_ticket stores an escalated-ticket record, the
\* escalation_id of the response it returns is the escalation_id of that
\* record.
CE_C25 ==
    \A caller \in 1..MaxCallers :
        tasks[caller].pc = "returned" =>
            \A record \in StoredBy(caller) :
                record.escalation_id = tasks[caller].escalation_id

\* ------------------------------------- process_ticket requests in flight
\* What the model call produces for the concurrent requests: a failed call,
\* a well-formed analysis, and one without its confidence_score.
ConcurrentOutputs ==
    {[kind |-> "raise", d |-> EmptyDict],
     [kind |-> "dict",
      d |-> [EmptyDict EXCEPT !.issue_type = JStr("hardware"),
                              !.urgency = JStr("high"),
                              !.solution = JStr("Restart the VPN client."),
                              !.confidence_score = JNum(7000)]],
     [kind |-> "dict",
      d |-> [EmptyDict EXCEPT !.issue_type = JStr("hardware"),
                              !.urgency = JStr("high"),
                              !.solution = JStr("Restart the VPN client.")]]}

\* Distances the index reports to them: similarities 0.95, 0.85 and 0.75.
ConcurrentDistances == {1000, 3000, 5000}

\* The locals of a process_ticket coroutine that has not been started.
NoRequestTask ==
    [fn |-> "none", pc |-> "none", ticket_request |-> NoRequest,
     ticket_id |-> "", similar_tickets |-> <<>>,
     use_database_solution |-> FALSE, response_source |-> "none",
     llm_output |-> NoOutput, ai_analysis |-> EmptyDict,
     response |-> NoResponse]

InitConcurrent ==
    /\ store = <<VpnRecord>>
    /\ store_at_start = store
    /\ nreq = 0
    /\ pc = "idle"
    /\ ticket_request = NoRequest
    /\ ticket_id = ""
    /\ similar_tickets = <<>>
    /\ index_failed = FALSE
    /\ use_database_solution = FALSE
    /\ response_source = "none"
    /\ llm_output = NoOutput
    /\ ai_analysis = EmptyDict
    /\ generator_calls = 0
    /\ recorder_calls = <<>>
    /\ exc = "none"
    /\ response = NoResponse
    /\ call = NoCall
    /\ returned = NoResult
    /\ collections = NoCollections
    /\ tasks = [caller \in 1..MaxCallers |-> NoRequestTask]

\* What a step of a request leaves alone: everything but the store and the
\* coroutines.
RequestFrame ==
    UNCHANGED <<nreq, pc, ticket_request, ticket_id, similar_tickets,
                index_failed, use_database_solution, response_source,
                llm_output, ai_analysis, generator_calls, recorder_calls, exc,
                response, store_at_start, call, returned, collections>>

\* process_ticket(ticket_request), lines 45-54: the coroutine of `caller`
\* starts and is suspended in its ranker call.
request_begin(caller, issue_description) ==
    /\ tasks[caller].pc = "none"
    /\ tasks' = [tasks EXCEPT ![caller] =
                    [NoRequestTask EXCEPT
                        !.fn = "process_ticket",
                        !.pc = "rank",
                        !.ticket_request =
                            [department |-> "it",
                             issue_description |-> issue_description],
                        !.ticket_id = "TKT-" \o ToString(caller)]]
    /\ UNCHANGED store
    /\ RequestFrame

\* The ranker call of `caller` returns (line 54, on the store as it is now).
request_rank(caller) ==
    /\ tasks[caller].pc = "rank"
    /\ \/ tasks' = [SetCandidates(tasks, caller, <<>>)
                        EXCEPT ![caller].pc = "decided"]
       \/ \E distance \in [1..Len(store) -> ConcurrentDistances] :
          \E order \in Rankings(distance, Len(store)) :
             tasks' =
                [SetCandidates(
                     tasks, caller,
                     search_similar(
                         collection_query(store, distance, order, SEARCH_LIMIT),
                         MIN_SIMILARITY))
                    EXCEPT ![caller].pc = "decided"]
    /\ UNCHANGED store
    /\ RequestFrame

\* Lines 59-102 run without suspension up to the generator call: the
\* decision, and on the reuse branch the analysis taken from the candidate.
request_decide(caller) ==
    /\ tasks[caller].pc = "decided"
    /\ LET task == tasks[caller]
           use == UseDatabaseSolution(task.similar_tickets,
                                      task.ticket_request.issue_description)
       IN  tasks' = [tasks EXCEPT ![caller] =
                       [task EXCEPT
                           !.use_database_solution = use,
                           !.response_source = IF use THEN "database" ELSE "ai",
                           !.ai_analysis =
                               IF use THEN ReuseAnalysis(task.similar_tickets[1])
                               ELSE task.ai_analysis,
                           !.pc = IF use THEN "respond" ELSE "generate"]]
    /\ UNCHANGED store
    /\ RequestFrame

\* The generator call of `caller` returns (lines 86-90) and the recorder
\* runs (line 92).
request_generate(caller) ==
    /\ tasks[caller].pc = "generate"
    /\ \E out \in ConcurrentOutputs :
          LET task == tasks[caller]
              analysis == analyze_ticket(task.ticket_request.issue_description, out)
          IN  /\ tasks' = [tasks EXCEPT ![caller] =
                              [task EXCEPT !.llm_output = out,
                                           !.ai_analysis = analysis,
                                           !.pc = "respond"]]
              /\ IF TicketMetadataValidates(analysis)
                 THEN store' \in
                        VectorService_add_resolved_ticket(
                            store,
                            [ticket_id     |-> task.ticket_id,
                             issue_type    |-> analysis.issue_type.s,
                             urgency       |-> analysis.urgency.s,
                             resolved_date |-> NOW_ISO],
                            task.ticket_request.issue_description,
                            analysis.solution.s)
                 ELSE store' = store
    /\ RequestFrame

\* Lines 104-131, and 133-150 when they raise: the response is returned.
request_respond(caller) ==
    /\ tasks[caller].pc = "respond"
    /\ LET task == tasks[caller]
       IN  tasks' = [tasks EXCEPT ![caller] =
                       [task EXCEPT
                           !.pc = "returned",
                           !.response =
                               IF ResponseError(task.ai_analysis) = "none"
                               THEN TicketResponse(task.ticket_id,
                                                   task.ticket_request,
                                                   task.ai_analysis,
                                                   task.similar_tickets,
                                                   task.response_source)
                               ELSE FallbackResponse(task.ticket_id,
                                                     task.ticket_request)]]
    /\ UNCHANGED store
    /\ RequestFrame

RequestStep(caller) ==
    \/ request_rank(caller)
    \/ request_decide(caller)
    \/ request_generate(caller)
    \/ request_respond(caller)

NextConcurrent ==
    \/ \E caller \in 1..MaxCallers, issue_description \in RequestDescriptions :
          request_begin(caller, issue_description)
    \/ \E caller \in 1..MaxCallers : request_rank(caller)
    \/ \E caller \in 1..MaxCallers : request_decide(caller)
    \/ \E caller \in 1..MaxCallers : request_generate(caller)
    \/ \E caller \in 1..MaxCallers : request_respond(caller)

\* The event loop resumes every coroutine whose awaited call has returned.
SpecConcurrent ==
    /\ InitConcurrent
    /\ [][NextConcurrent]_vars
    /\ \A caller \in 1..MaxCallers : WF_vars(RequestStep(caller))

\* The decision rule on the candidates a request holds.
ReuseRuleOf(task) ==
    /\ Len(task.similar_tickets) >= 1
    /\ \/ task.similar_tickets[1].similarity_score >= 9000
       \/ /\ task.similar_tickets[1].similarity_score >= 8000
          /\ SufficientOverlap(KeywordsOf[task.ticket_request.issue_description],
                               KeywordsOf[task.similar_tickets[1].description])

\* Every returned request holds a response that follows the decision rule on
\* its own candidates.
OwnDecision ==
    \A caller \in 1..MaxCallers :
        LET task == tasks[caller]
        IN  /\ task.pc \in {"generate", "respond", "returned"} =>
                  task.use_database_solution = ReuseRuleOf(task)
            /\ task.pc = "returned" =>
                  /\ task.response # NoResponse
                  /\ task.response.ticket_id = task.ticket_id
                  /\ task.response.response_source = "database" <=> ReuseRuleOf(task)
                  /\ task.response.response_source = "database" =>
                        task.response.ai_generated_solution =
                            task.similar_tickets[1].resolution

\* A step changes the locals of one request only, and the candidates and the
\* decision a request holds stay as its own ranker call and decision set them.
NoInterference ==
    \A c1 \in 1..MaxCallers :
        /\ \A c2 \in 1..MaxCallers :
              c1 # c2 /\ tasks'[c1] # tasks[c1] => tasks'[c2] = tasks[c2]
        /\ tasks[c1].pc \in {"decided", "generate", "respond", "returned"} =>
              /\ tasks'[c1].similar_tickets = tasks[c1].similar_tickets
              /\ tasks'[c1].ticket_request = tasks[c1].ticket_request
        /\ tasks[c1].pc \in {"generate", "respond", "returned"} =>
              tasks'[c1].use_database_solution = tasks[c1].use_database_solution

\* C23: for any interleaving of concurrent process_ticket requests,
\* suspended at their ranker and generator calls, every request completes
\* with a response, each response follows the decision rule on the
\* candidates its own ranker call returned, and no step of one request
\* changes the candidates, keywords or decision another holds.
Thm_C23 ==
    /\ []OwnDecision
    /\ [][NoInterference]_vars
    /\ \A caller \in 1..MaxCallers :
          (tasks[caller].pc # "none") ~> (tasks[caller].pc = "returned")

\* C23 witness: two requests were in flight together; the first reused the
\* stored solution although the second had recorded a new one meanwhile, and
\* the second regenerated on its own candidates.
Wit_C23 ==
    /\ tasks[1].pc = "returned"
    /\ tasks[2].pc = "returned"
    /\ tasks[1].response.response_source = "database"
    /\ tasks[2].response.response_source = "ai"
    /\ Len(store) = 2
    /\ Len(tasks[1].similar_tickets) = 1
    /\ tasks[2].similar_tickets # tasks[1].similar_tickets

\* ------------------------------- a request on a collection of five records
\* A collection as earlier requests and the sample data leave it: four
\* records search_similar can parse and one it cannot.
WifiRecord ==
    [id |-> "sample_004", ticket_id |-> "TKT-2024-WFI",
     description |-> "wifi not working",
     issue_type |-> "network", urgency |-> "medium",
     resolution |-> "Forget the network and join it again.",
     resolved_date |-> "2024-12-01"]
RecordedRecord ==
    [id |-> "ticket_5", ticket_id |-> "TKT-0",
     description |-> "vpn keeps crashing",
     issue_type |-> "software", urgency |-> "high",
     resolution |-> "Update the VPN client.", resolved_date |-> NOW_ISO]
LargeCollection ==
    <<VpnRecord, [PrinterRecord EXCEPT !.id = "sample_002"], UnparsableRecord,
      WifiRecord, RecordedRecord>>

\* The service has served all but one of its requests.
InitLargeCollection ==
    /\ store = LargeCollection
    /\ store_at_start = store
    /\ nreq = MaxRequests - 1
    /\ pc = "idle"
    /\ ticket_request = NoRequest
    /\ ticket_id = ""
    /\ similar_tickets = <<>>
    /\ index_failed = FALSE
    /\ use_database_solution = FALSE
    /\ response_source = "none"
    /\ llm_output = NoOutput
    /\ ai_analysis = EmptyDict
    /\ generator_calls = 0
    /\ recorder_calls = <<>>
    /\ exc = "none"
    /\ response = NoResponse
    /\ call = NoCall
    /\ returned = NoResult
    /\ collections = NoCollections
    /\ tasks = NoTasks

SpecLargeCollection == InitLargeCollection /\ [][Next]_vars

\* The first three candidates of the ranked list, in rank order.
FirstThree(tickets) == SubSeq(tickets, 1, IF Len(tickets) < 3 THEN Len(tickets) ELSE 3)

\* C24 as stated: the similar_tickets list of every response of
\* process_ticket has at most 3 entries and is the first three, in rank
\* order, of the ranked list the decision was made on.
CE_C24 ==
    pc = "idle" /\ response # NoResponse =>
        /\ Len(response.similar_tickets) <= 3
        /\ response.similar_tickets = FirstThree(similar_tickets)

\* C24, amended: the similar_tickets list of a response has at most 3
\* entries; in a response of source 'database' or 'ai' it is the first
\* three, in rank order, of the ranked list the decision was made on, and in
\* the fallback response it is empty.
Thm_C24 ==
    pc = "idle" /\ response # NoResponse =>
        /\ Len(response.similar_tickets) <= 3
        /\ response.response_source \in {"database", "ai"} =>
              response.similar_tickets = FirstThree(similar_tickets)
        /\ response.response_source = "fallback" =>
              response.similar_tickets = <<>>
        /\ response.response_source \in {"database", "ai", "fallback"}

\* C24 witness: the ranker returned four candidates and the response shows
\* the first three of them.
Wit_C24 ==
    /\ pc = "idle"
    /\ Len(similar_tickets) = 4
    /\ response.response_source = "ai"
    /\ Len(response.similar_tickets) = 3
    /\ response.similar_tickets[1] = similar_tickets[1]
    /\ response.similar_tickets[3] = similar_tickets[3]
    /\ similar_tickets[1].similarity_score > similar_tickets[3].similarity_score

\* C26: in any sequence of process_ticket requests the fixed apology text
\* that stands in for a solution when the generator is unavailable is never
\* returned with a confidence above 0.5, also not by a later request that
\* finds the record the failed request stored.
CE_C26 ==
    Returned /\ response.ai_generated_solution = AI_UNAVAILABLE_SOLUTION =>
        /\ response.confidence_score.t = "num"
        /\ response.confidence_score.n <= 5000

\* The recorder of a request writes what that request generated: its ticket
\* id, its description, and the solution, issue type and urgency of its
\* analysis.
RecordsOwnAnalysis ==
    store' # store =>
        LET record == store'[Len(store')]
        IN  /\ pc = "record"
            /\ record.ticket_id = ticket_id
            /\ record.description = ticket_request.issue_description
            /\ record.resolution = ai_analysis.solution.s
            /\ record.issue_type = ai_analysis.issue_type.s
            /\ record.urgency = ai_analysis.urgency.s

\* A later request whose first candidate is the record of ticket TKT-1,
\* scoring at least 0.9, returns what that record holds.
ReturnsStoredSolution ==
    /\ Returned
    /\ nreq = 2
    /\ Len(similar_tickets) >= 1
    /\ similar_tickets[1].id = "TKT-1"
    /\ similar_tickets[1].similarity_score >= 9000
    => \E k \in 1..Len(store_at_start) :
          /\ store_at_start[k].ticket_id = "TKT-1"
          /\ response.response_source = "database"
          /\ response.ai_generated_solution = store_at_start[k].resolution
          /\ response.issue_type = store_at_start[k].issue_type
          /\ response.urgency = store_at_start[k].urgency
          /\ response.source_ticket_id = JStr("TKT-1")
          /\ generator_calls = 0

\* C27: round trip through the store: after a request with ticket id T
\* regenerated solution S with issue type I and urgency U and its record was
\* stored, a later request whose ranker returns that record first with
\* similarity at least 0.9 gets solution S, issue type I, urgency U and
\* source_ticket_id T.
Thm_C27 == [][RecordsOwnAnalysis]_vars /\ []ReturnsStoredSolution

\* C27 witness: the second request reused the record the first one stored.
Wit_C27 ==
    /\ Returned
    /\ nreq = 2
    /\ Len(store_at_start) = 1
    /\ store_at_start[1].ticket_id = "TKT-1"
    /\ similar_tickets[1].similarity_score = 9500
    /\ response.response_source = "database"
    /\ response.source_ticket_id = JStr("TKT-1")
    /\ response.ai_generated_solution = "Restart the VPN client."
    /\ response.issue_type = "hardware"

\* A call of regenerate_ai_solution has returned.
RegenerateReturned == pc = "idle" /\ response_source = "ai_regenerated"

\* C28: every call of regenerate_ai_solution invokes the generator exactly
\* once, whatever the store holds and however long the issue text is; it
\* returns the generated solution with source 'ai_regenerated', no
\* source_ticket_id and the request's ticket_id, or the fallback response,
\* never a stored resolution; and a record is appended to the store exactly
\* when the response is 'ai_regenerated'.
CE_C28 ==
    RegenerateReturned =>
        /\ generator_calls = 1
        /\ response.ticket_id = ticket_id
        /\ \/ /\ response.response_source = "ai_regenerated"
              /\ response.source_ticket_id = JNull
              /\ response.ai_generated_solution = ai_analysis.solution.s
           \/ /\ response.response_source = "fallback"
              /\ response.ai_generated_solution = REGENERATE_FALLBACK_SOLUTION
        /\ response.response_source = "ai_regenerated" <=>
              Len(store) = Len(store_at_start) + 1

\* ------------------------- a request on records that cannot be parsed
\* A record whose resolved date datetime.fromisoformat rejects.
BadDateRecord ==
    [id |-> "sample_005", ticket_id |-> "TKT-2024-DATE",
     description |-> "vpn keeps crashing when opened",
     issue_type |-> "network", urgency |-> "high",
     resolution |-> "Replace the network cable.", resolved_date |-> "12/01/2024"]

\* Two records search_similar can parse (the samples of the service) and two
\* it cannot (the classification of test_data.py, and the date).
MixedCollection ==
    <<VpnRecord, UnparsableRecord, [PrinterRecord EXCEPT !.id = "sample_002"],
      BadDateRecord>>

InitMixedCollection ==
    /\ store = MixedCollection
    /\ store_at_start = store
    /\ nreq = MaxRequests - 1
    /\ pc = "idle"
    /\ ticket_request = NoRequest
    /\ ticket_id = ""
    /\ similar_tickets = <<>>
    /\ index_failed = FALSE
    /\ use_database_solution = FALSE
    /\ response_source = "none"
    /\ llm_output = NoOutput
    /\ ai_analysis = EmptyDict
    /\ generator_calls = 0
    /\ recorder_calls = <<>>
    /\ exc = "none"
    /\ response = NoResponse
    /\ call = NoCall
    /\ returned = NoResult
    /\ collections = NoCollections
    /\ tasks = NoTasks

SpecMixedCollection == InitMixedCollection /\ [][Next]_vars

\* The ticket ids of the records that cannot be parsed into a candidate.
UnparsableIds == {"TKT-2024-BAD", "TKT-2024-DATE"}

\* The ranker step returns, for some distances of the stored records to the
\* query, exactly the parseable records at or above the floor, best first.
SkipsUnparsable ==
    pc = "rank" /\ ~index_failed' =>
        \E distance \in [1..Len(store) -> Distances] :
            LET expected ==
                    {k \in 1..Len(store) :
                        /\ store[k].ticket_id \notin UnparsableIds
                        /\ 20000 - distance[k] >= 2 * 3000}
            IN  /\ Len(similar_tickets') = Cardinality(expected)
                /\ \A k \in expected :
                      \E i \in 1..Len(similar_tickets') :
                          /\ similar_tickets'[i].id = store[k].ticket_id
                          /\ similar_tickets'[i].resolution = store[k].resolution
                          /\ similar_tickets'[i].similarity_score =
                                10000 - distance[k] \div 2
                /\ \A i \in 1..(Len(similar_tickets') - 1) :
                      similar_tickets'[i].similarity_score >=
                          similar_tickets'[i + 1].similarity_score

\* No candidate, no reused solution and no response comes from a record that
\* cannot be parsed.
NeverReusesUnparsable ==
    /\ \A i \in 1..Len(similar_tickets) : similar_tickets[i].id \notin UnparsableIds
    /\ response.source_ticket_id.s \notin UnparsableIds
    /\ response.ai_generated_solution \notin
           {"Restart the router.", "Replace the network cable."}
    /\ response.issue_type # "Technical"

\* C29: a stored record whose metadata cannot be parsed into a candidate
\* (issue type or urgency outside the enums, or an unparsable resolved date)
\* is skipped by search_similar without failing the search: the other
\* results are still returned in order, and such a record is never the
\* candidate process_ticket reuses.
Thm_C29 == [][SkipsUnparsable]_vars /\ []NeverReusesUnparsable

\* C29 witness: the index ranked both unparsable records before the two
\* parseable ones; the call returned the latter, best first, and reused the
\* first of them.
Wit_C29 ==
    /\ Returned
    /\ ~index_failed
    /\ Len(similar_tickets) = 2
    /\ similar_tickets[1].id = "TKT-2024-VPN"
    /\ similar_tickets[1].similarity_score = 8500
    /\ similar_tickets[2].id = "TKT-2024-PRN"
    /\ similar_tickets[2].similarity_score = 7500
    /\ response.response_source = "database"
    /\ response.source_ticket_id = JStr("TKT-2024-VPN")

\* The five issue types, and the routing table's entry for a type and a
\* department: the department's entry if the type has one, else the type's
\* default.
KnownIssueTypes == {"hardware", "software", "network", "access", "other"}
TableEntry(type, department) ==
    IF department \in DOMAIN escalation_contacts[type]
    THEN escalation_contacts[type][department]
    ELSE escalation_contacts[type]["default"]

\* C30: in every response of process_ticket the escalation contact is the
\* fallback contact 'it-support@company.com' or the routing table's entry
\* for the response's issue type; the global default 'support@company.com'
\* is never returned, because the issue type that reaches the router is
\* always one of the five known types.
Thm_C30 ==
    /\ pc = "respond" =>
          /\ ai_analysis.issue_type.t = "str"
          /\ ai_analysis.issue_type.s \in KnownIssueTypes
          /\ _get_escalation_contact(ai_analysis.issue_type.s,
                                     ticket_request.department)
                # "support@company.com"
    /\ Returned =>
          /\ response.escalation_contact # "support@company.com"
          /\ response.response_source = "fallback" =>
                response.escalation_contact = "it-support@company.com"
          /\ response.response_source # "fallback" =>
                /\ response.issue_type \in KnownIssueTypes
                /\ response.escalation_contact =
                      TableEntry(response.issue_type, response.department)

\* C30 witness: the generator classified the ticket as "Technical"; the
\* router was given "other" and the response names that type's default.
Wit_C30 ==
    /\ Returned
    /\ llm_output.kind = "dict"
    /\ llm_output.d.issue_type = JStr("Technical")
    /\ response.response_source = "ai"
    /\ response.issue_type = "other"
    /\ response.department = "hr"
    /\ response.escalation_contact = "general-support@company.com"
====
